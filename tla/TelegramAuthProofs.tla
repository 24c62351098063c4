-------------------------- MODULE TelegramAuthProofs ---------------------------
(***************************************************************************)
(* The safety properties of the Telegram client, for any contacts, any     *)
(* number of overlapping requests and any bound of the queue.              *)
(*                                                                         *)
(* LoggedOutStays is not inductive: a posted update "ready" that runs late *)
(* would set auth again.  The strengthening says that there is at most one *)
(* such update, which belongs to a session TDLib has opened, and that it   *)
(* has run before anything that lets the user log out is on the screen.    *)
(* The types follow, with the count that bounds how often a contact can be *)
(* in the list; then that the helper's state follows TDLib's, from what    *)
(* the latest update in the queue will set; and what the activity has of   *)
(* the contacts, from what is complete or still on its way.                *)
(***************************************************************************)
EXTENDS TelegramAuth, SequenceTheorems, FiniteSetTheorems, TLAPS

Opened == {"ready", "closing", "closed"}

(* No update "ready", and at most one, in the queue s.                     *)
Clear(s)     == \A i \in 1 .. Len(s) : s[i] # "ready"
AtMostOne(s) == \A i, j \in 1 .. Len(s) :
                  s[i] = "ready" /\ s[j] = "ready" => i = j

(* The update "ready" has run: the user is signed in, or a dialog that is  *)
(* shown only then is still open, or he is logging out.                    *)
HasRun ==
  \/ auth = "in"
  \/ screen \in {"in", "contacts"}
  \/ "logout" \in asked
  \/ left

QueueInv ==
  /\ posts \in Seq(Posts)
  /\ AtMostOne(posts)
  /\ Clear(posts) \/ td \in Opened

LogoutInv ==
  /\ HasRun => td \in Opened /\ Clear(posts)
  /\ left => auth # "in"

Inv == QueueInv /\ LogoutInv

-----------------------------------------------------------------------------
(* Queues.                                                                 *)

(* A message other than "ready" changes nothing of what is said of "ready" *)
(* in a queue.                                                             *)
LEMMA AppendOther ==
  ASSUME NEW s \in Seq(Posts), NEW m \in Posts, m # "ready"
  PROVE  /\ Append(s, m) \in Seq(Posts)
         /\ Clear(s) => Clear(Append(s, m))
         /\ AtMostOne(s) => AtMostOne(Append(s, m))
<1>1. /\ Append(s, m) \in Seq(Posts)
      /\ Len(Append(s, m)) = Len(s) + 1
      /\ \A i \in 1 .. Len(s) : Append(s, m)[i] = s[i]
      /\ Append(s, m)[Len(s) + 1] = m
  BY AppendProperties
<1>2. Len(s) \in Nat
  BY LenProperties
<1>3. \A i \in 1 .. Len(s) + 1 : Append(s, m)[i] = "ready" =>
        i \in 1 .. Len(s) /\ s[i] = "ready"
  BY <1>1, <1>2
<1> QED
  BY <1>1, <1>2, <1>3 DEF Clear, AtMostOne

(* The first "ready" of a queue is the only one.                           *)
LEMMA AppendReady ==
  ASSUME NEW s \in Seq(Posts), Clear(s)
  PROVE  /\ Append(s, "ready") \in Seq(Posts)
         /\ AtMostOne(Append(s, "ready"))
<1>1. "ready" \in Posts
  BY DEF Posts
<1>2. /\ Append(s, "ready") \in Seq(Posts)
      /\ Len(Append(s, "ready")) = Len(s) + 1
      /\ \A i \in 1 .. Len(s) : Append(s, "ready")[i] = s[i]
  BY <1>1, AppendProperties
<1>3. Len(s) \in Nat
  BY LenProperties
<1>4. \A i \in 1 .. Len(s) + 1 :
        Append(s, "ready")[i] = "ready" => i = Len(s) + 1
  BY <1>2, <1>3 DEF Clear
<1> QED
  BY <1>2, <1>3, <1>4 DEF AtMostOne

(* What is left of a queue when its head has run.                          *)
LEMMA TailKeeps ==
  ASSUME NEW s \in Seq(Posts), s # <<>>
  PROVE  /\ Tail(s) \in Seq(Posts)
         /\ Clear(s) => Clear(Tail(s)) /\ Head(s) # "ready"
         /\ AtMostOne(s) => AtMostOne(Tail(s))
         /\ AtMostOne(s) /\ Head(s) = "ready" => Clear(Tail(s))
<1>1. /\ Tail(s) \in Seq(Posts)
      /\ Len(Tail(s)) = Len(s) - 1
      /\ \A i \in 1 .. Len(Tail(s)) : Tail(s)[i] = s[i + 1]
  BY HeadTailProperties
<1>2. Len(s) \in Nat /\ Len(s) # 0
  BY LenProperties, EmptySeq
<1>3. Head(s) = s[1] /\ 1 \in 1 .. Len(s)
  BY <1>2
<1>4. \A i \in 1 .. Len(Tail(s)) : i + 1 \in 1 .. Len(s) /\ i + 1 # 1
  BY <1>1, <1>2
<1>5. Clear(s) => Clear(Tail(s)) /\ Head(s) # "ready"
  BY <1>1, <1>3, <1>4 DEF Clear
<1>6. AtMostOne(s) => AtMostOne(Tail(s))
  BY <1>1, <1>2, <1>4 DEF AtMostOne
<1>7. AtMostOne(s) /\ Head(s) = "ready" => Clear(Tail(s))
  BY <1>1, <1>3, <1>4 DEF AtMostOne, Clear
<1> QED
  BY <1>1, <1>5, <1>6, <1>7
-----------------------------------------------------------------------------
(* Steps.                                                                  *)

(* A step that adds no "ready", does not undo an opened session and signs  *)
(* nobody in preserves the invariant.                                      *)
LEMMA QuietStep ==
  ASSUME Inv,
         posts' \in Seq(Posts),
         AtMostOne(posts'),
         Clear(posts) => Clear(posts'),
         td \in Opened => td' \in Opened,
         HasRun' => HasRun,
         left' /\ auth' = "in" => left /\ auth = "in"
  PROVE  Inv'
BY DEF Inv, QueueInv, LogoutInv

(* The queue after a step that posts m, or nothing.                        *)
LEMMA PostQuiet ==
  ASSUME Inv, NEW m \in Posts, m # "ready", posts' = Append(posts, m)
  PROVE  /\ posts' \in Seq(Posts)
         /\ AtMostOne(posts')
         /\ Clear(posts) => Clear(posts')
BY AppendOther DEF Inv, QueueInv

LEMMA SameQueue ==
  ASSUME Inv, UNCHANGED posts
  PROVE  /\ posts' \in Seq(Posts)
         /\ AtMostOne(posts')
         /\ Clear(posts) => Clear(posts')
BY DEF Inv, QueueInv

LEMMA TakeQuiet ==
  ASSUME Inv, posts # <<>>, posts' = Tail(posts)
  PROVE  /\ posts' \in Seq(Posts)
         /\ AtMostOne(posts')
         /\ Clear(posts) => Clear(posts')
BY TailKeeps DEF Inv, QueueInv

(* What the dialogs of a login do to the screen.                           *)
LEMMA ScreenAfterAuth ==
  ASSUME onAuthSuccess \/ startTelegramAuth \/ loadTelegramContacts
  PROVE  screen' \in {"in", "contacts"} =>
           auth = "in" \/ screen \in {"in", "contacts"}
BY DEF onAuthSuccess, startTelegramAuth, showTelegramLoginDialog, Settings,
       loadTelegramContacts, IsAuthenticated, screenVars

LEMMA ScreenAfterState ==
  ASSUME NEW st, onAuthStateChanged(st)
  PROVE  screen' \in {"in", "contacts"} => screen \in {"in", "contacts"}
BY DEF onAuthStateChanged, screenVars

-----------------------------------------------------------------------------
(* The steps of the main looper.                                           *)

LEMMA MainKeeps ==
  ASSUME Inv, Main
  PROVE  Inv'
<1>1. CASE RunParams
  <2>1. posts # <<>> /\ posts' = Tail(posts)
    BY <1>1 DEF RunParams, Take
  <2> QED
    BY <1>1, <2>1, TakeQuiet, QuietStep
    DEF RunParams, HasRun, screenVars
<1>2. CASE RunLoggedOut
  <2>1. posts # <<>> /\ posts' = Tail(posts)
    BY <1>2 DEF RunLoggedOut, Take
  <2>2. screen' \in {"in", "contacts"} => screen \in {"in", "contacts"}
    BY <1>2, ScreenAfterState DEF RunLoggedOut
  <2> QED
    BY <1>2, <2>1, <2>2, TakeQuiet, QuietStep
    DEF RunLoggedOut, HasRun, tdVars
<1>3. CASE RunUpdateUser
  <2>1. posts # <<>> /\ (posts' = Tail(posts) \/ posts' = Append(Tail(posts), "userData"))
    BY <1>3 DEF RunUpdateUser, updateCurrentUser
  <2>2. /\ Tail(posts) \in Seq(Posts)
        /\ AtMostOne(Tail(posts))
        /\ Clear(posts) => Clear(Tail(posts))
    BY <2>1, TailKeeps DEF Inv, QueueInv
  <2>3. "userData" \in Posts
    BY DEF Posts
  <2>4. /\ posts' \in Seq(Posts)
        /\ AtMostOne(posts')
        /\ Clear(posts) => Clear(posts')
    BY <2>1, <2>2, <2>3, AppendOther
  <2> QED
    BY <1>3, <2>4, QuietStep DEF RunUpdateUser, HasRun, screenVars
<1>4. CASE RunUserData
  <2>1. posts # <<>> /\ posts' = Tail(posts)
    BY <1>4 DEF RunUserData, Take
  <2>2. screen' \in {"in", "contacts"} =>
          auth = "in" \/ screen \in {"in", "contacts"}
    BY <1>4, ScreenAfterAuth DEF RunUserData, screenVars
  <2> QED
    BY <1>4, <2>1, <2>2, TakeQuiet, QuietStep DEF RunUserData, HasRun, tdVars
<1>5. CASE RunContacts
  <2>1. posts # <<>> /\ posts' = Tail(posts)
    BY <1>5 DEF RunContacts, Take
  <2> QED
    BY <1>5, <2>1, TakeQuiet, QuietStep
    DEF RunContacts, HasRun, tdVars, screenVars
<1>6. CASE RunError
  <2>1. posts # <<>> /\ posts' = Tail(posts)
    BY <1>6 DEF RunError, Take
  <2> QED
    BY <1>6, <2>1, TakeQuiet, QuietStep
    DEF RunError, HasRun, tdVars, screenVars
<1>7. CASE saveUserData("main")
  <2>1. UNCHANGED posts
    BY <1>7 DEF saveUserData
  <2> QED
    BY <1>7, <2>1, SameQueue, QuietStep
    DEF saveUserData, HasRun, screenVars
<1>8. ASSUME NEW m \in StateNews, RunState(m)
      PROVE  Inv'
  <2>1. posts # <<>> /\ posts' = Tail(posts) /\ Head(posts) = m
    BY <1>8 DEF RunState, Take
  <2>2. screen' \in {"in", "contacts"} => screen \in {"in", "contacts"}
    BY <1>8, ScreenAfterState DEF RunState
  <2>3. UNCHANGED <<td, left>> /\ auth' = AuthOf(m)
        /\ ("logout" \in asked' => "logout" \in asked)
    BY <1>8 DEF RunState
  <2>4. CASE m = "ready"
    <3>1. ~Clear(posts) /\ Clear(posts') /\ AtMostOne(posts')
          /\ posts' \in Seq(Posts)
      BY <2>1, <2>4, TailKeeps DEF Inv, QueueInv
    <3>2. td \in Opened /\ ~left
      BY <3>1 DEF Inv, QueueInv, LogoutInv, HasRun
    <3> QED
      BY <2>3, <3>1, <3>2 DEF Inv, QueueInv, LogoutInv
  <2>5. CASE m # "ready"
    <3>1. auth' # "in"
      BY <2>3, <2>5, <1>8 DEF AuthOf, StateNews
    <3> QED
      BY <2>1, <2>2, <2>3, <3>1, TakeQuiet, QuietStep DEF HasRun
  <2> QED
    BY <2>4, <2>5
<1> QED
  BY <1>1, <1>2, <1>3, <1>4, <1>5, <1>6, <1>7, <1>8 DEF Main
-----------------------------------------------------------------------------
(* The steps of TDLib.                                                     *)

(* A session that TDLib opens: nothing can have run in it yet.             *)
LEMMA OpeningKeeps ==
  ASSUME Inv, td \notin Opened, SetTd("ready"),
         UNCHANGED <<auth, screen, left>>, asked' \subseteq asked
  PROVE  Inv'
<1>1. Clear(posts) /\ posts \in Seq(Posts) /\ ~HasRun
  BY DEF Inv, QueueInv, LogoutInv
<1>2. posts' = Append(posts, "ready") /\ td' = "ready"
  BY DEF SetTd, Post
<1>3. posts' \in Seq(Posts) /\ AtMostOne(posts')
  BY <1>1, <1>2, AppendReady
<1>4. ~HasRun'
  BY <1>1 DEF HasRun
<1>5. left' => auth' # "in"
  BY DEF Inv, LogoutInv
<1> QED
  BY <1>2, <1>3, <1>4, <1>5 DEF Inv, QueueInv, LogoutInv, Opened

LEMMA AnswersKeep ==
  ASSUME Inv, Answers
  PROVE  Inv'
<1> USE DEF Post, SetTd, Refuse
<1>p. {"phone", "code", "password", "closed", "userData", "contacts",
       "loggedOut", "error"} \subseteq Posts
  BY DEF Posts
<1>1. CASE AnswerParams
  <2>1. CASE td = "params" /\ SetTd("ready")
    BY <1>1, <2>1, OpeningKeeps DEF AnswerParams, screenVars, Opened
  <2>2. CASE \/ Refuse
             \/ /\ td = "params"
                /\ \E st \in {"phone", "code", "password"} : SetTd(st)
             \/ td = "params" /\ UNCHANGED posts
    <3>1. \/ UNCHANGED posts
          \/ \E m \in {"phone", "code", "password", "error"} :
               posts' = Append(posts, m)
      BY <2>2
    <3>2. td \in Opened => td' \in Opened
      BY <2>2 DEF Opened
    <3> QED
      BY <1>1, <1>p, <3>1, <3>2, SameQueue, PostQuiet, QuietStep
      DEF AnswerParams, HasRun, screenVars
  <2> QED
    BY <1>1, <2>1, <2>2 DEF AnswerParams, Resumed
<1>2. ASSUME NEW q \in LoginQueries, AnswerLogin(q)
      PROVE  Inv'
  <2>1. UNCHANGED <<auth, screen, left>> /\ asked' \subseteq asked
    BY <1>2 DEF AnswerLogin, screenVars
  <2>2. CASE q # "phone" /\ td = q /\ SetTd("ready")
    BY <1>2, <2>1, <2>2, OpeningKeeps DEF LoginQueries, Opened
  <2>3. CASE \/ td \in {"phone", "code", "password"} /\ SetTd("code")
             \/ td = "code" /\ SetTd("password")
             \/ Refuse
    <3>1. \/ posts' = Append(posts, "code") \/ posts' = Append(posts, "error")
          \/ posts' = Append(posts, "password")
      BY <2>3
    <3>2. td \in Opened => td' \in Opened
      BY <2>3 DEF Opened
    <3> QED
      BY <2>1, <1>p, <3>1, <3>2, PostQuiet, QuietStep DEF HasRun
  <2> QED
    BY <1>2, <2>2, <2>3 DEF AnswerLogin
<1>3. CASE AnswerMe
  <2>1. UNCHANGED posts \/ posts' = Append(posts, "userData")
    BY <1>3 DEF AnswerMe, updateCurrentUser
  <2> QED
    BY <1>3, <1>p, <2>1, SameQueue, PostQuiet, QuietStep
    DEF AnswerMe, HasRun, screenVars
<1>4. CASE AnswerLogout
  <2>1. posts' = Append(posts, "loggedOut")
    BY <1>4 DEF AnswerLogout
  <2>2. HasRun /\ (td \in Opened => td' \in Opened) /\ auth' # "in"
    BY <1>4 DEF AnswerLogout, HasRun, Opened
  <2> QED
    BY <2>1, <2>2, <1>p, PostQuiet, QuietStep
<1>5. CASE TdCloses
  <2>1. posts' = Append(posts, "closed") /\ td' \in Opened
    BY <1>5 DEF TdCloses, Opened
  <2> QED
    BY <1>5, <1>p, <2>1, PostQuiet, QuietStep DEF TdCloses, HasRun, screenVars
<1>6. CASE saveUserData("td")
  BY <1>6, SameQueue, QuietStep DEF saveUserData, HasRun, screenVars
<1>7. ASSUME NEW r \in Request, AnswerContacts(r)
      PROVE  Inv'
  <2>1. \/ UNCHANGED posts \/ posts' = Append(posts, "error")
        \/ posts' = Append(posts, "contacts")
    BY <1>7 DEF AnswerContacts, Remaining
  <2>2. UNCHANGED <<td, asked, auth, screen, left>>
    BY <1>7 DEF AnswerContacts, tdVars, screenVars
  <2> QED
    BY <2>1, <2>2, <1>p, SameQueue, PostQuiet, QuietStep DEF HasRun
<1>8. ASSUME NEW r \in Request, NEW c \in Contact, AnswerUser(r, c)
      PROVE  Inv'
  <2>1. UNCHANGED posts \/ posts' = Append(posts, "contacts")
    BY <1>8 DEF AnswerUser, Remaining
  <2>2. UNCHANGED <<td, asked, auth, screen, left>>
    BY <1>8 DEF AnswerUser, tdVars, screenVars
  <2> QED
    BY <2>1, <2>2, <1>p, SameQueue, PostQuiet, QuietStep DEF HasRun
<1> QED
  BY <1>1, <1>2, <1>3, <1>4, <1>5, <1>6, <1>7, <1>8 DEF Answers

-----------------------------------------------------------------------------
(* The steps of the user and of the surroundings.                          *)

LEMMA UserKeeps ==
  ASSUME Inv, User
  PROVE  Inv'
<1>1. UNCHANGED <<posts, td, auth, left>>
  BY DEF User, OpenSettings, Cancel, Login, EnterPhone, EnterCode,
         EnterPassword, LogOut, ShowContacts, SaveContacts, Tick, Search,
         uiConstant
<1>2. HasRun' => HasRun
  <2> USE DEF HasRun, OnScreen, Show
  <2>1. CASE OpenSettings \/ SaveContacts
    BY <2>1 DEF OpenSettings, SaveContacts, Settings, IsAuthenticated,
                uiConstant
  <2>2. CASE Cancel \/ EnterPhone \/ EnterPassword
    BY <2>2 DEF Cancel, EnterPhone, EnterPassword, uiConstant
  <2>3. CASE Login
    BY <2>3, ScreenAfterAuth DEF Login, uiConstant
  <2>4. CASE EnterCode
    BY <2>4, ScreenAfterAuth DEF EnterCode, uiConstant
  <2>5. CASE LogOut \/ ShowContacts
    BY <2>5 DEF LogOut, ShowContacts
  <2>6. CASE (\E p \in Pickable : Tick(p)) \/ \E S \in SUBSET Person : Search(S)
    BY <2>6 DEF Tick, Search
  <2> QED
    BY <2>1, <2>2, <2>3, <2>4, <2>5, <2>6 DEF User
<1> QED
  BY <1>1, <1>2, SameQueue, QuietStep

LEMMA CreateKeeps ==
  ASSUME Inv, CreateActivity
  PROVE  Inv'
<1>1. "params" \in Posts
  BY DEF Posts
<1>2. UNCHANGED posts \/ posts' = Append(posts, "params")
  BY DEF CreateActivity, Post
<1>3. UNCHANGED <<asked, auth, left>> /\ screen' \in {"none", "phone"}
  BY DEF CreateActivity
<1>4. td \in Opened => td' \in Opened
  BY DEF CreateActivity, Opened
<1> QED
  BY <1>1, <1>2, <1>3, <1>4, SameQueue, PostQuiet, QuietStep DEF HasRun

LEMMA KillKeeps ==
  ASSUME Kill
  PROVE  Inv'
<1>1. posts' = <<>> /\ ~HasRun' /\ ~left'
  BY DEF Kill, HasRun
<1>2. posts' \in Seq(Posts) /\ AtMostOne(posts') /\ Clear(posts')
  BY <1>1, EmptySeq DEF AtMostOne, Clear
<1> QED
  BY <1>1, <1>2 DEF Inv, QueueInv, LogoutInv

LEMMA OthersKeep ==
  ASSUME Inv, UserChanges \/ SessionEnds \/ UNCHANGED vars
  PROVE  Inv'
<1>1. CASE UserChanges
  <2>1. posts' = Append(posts, "updateUser") /\ "updateUser" \in Posts
    BY <1>1 DEF UserChanges, Post, Posts
  <2> QED
    BY <1>1, <2>1, PostQuiet, QuietStep
    DEF UserChanges, HasRun, tdVars, screenVars
<1>2. CASE SessionEnds
  BY <1>2, SameQueue, QuietStep DEF SessionEnds, HasRun, screenVars, Opened
<1>3. CASE UNCHANGED vars
  BY <1>3, SameQueue, QuietStep DEF vars, HasRun, tdVars, screenVars
<1> QED
  BY <1>1, <1>2, <1>3

-----------------------------------------------------------------------------
LEMMA LogoutInvariant == Spec => []Inv
<1>1. Init => Inv
  <2> SUFFICES ASSUME Init PROVE Inv
    OBVIOUS
  <2>1. posts = <<>> /\ ~HasRun /\ ~left
    BY DEF Init, HasRun
  <2>2. posts \in Seq(Posts) /\ AtMostOne(posts) /\ Clear(posts)
    BY <2>1, EmptySeq DEF AtMostOne, Clear
  <2> QED
    BY <2>1, <2>2 DEF Inv, QueueInv, LogoutInv
<1>2. Inv /\ [Next]_vars => Inv'
  BY MainKeeps, AnswersKeep, UserKeeps, CreateKeeps, KillKeeps, OthersKeep
  DEF Next
<1> QED
  BY <1>1, <1>2, PTL DEF Spec

(* Once the user has logged out, isAuthenticated is false for as long as   *)
(* the process lives: no coroutine sends a segment or a location in his    *)
(* name, whatever late answers TDLib's thread still handles.               *)
THEOREM LoggedOut == Spec => []LoggedOutStays
<1>1. Inv => LoggedOutStays
  BY DEF Inv, LogoutInv, LoggedOutStays, IsAuthenticated
<1> QED
  BY <1>1, LogoutInvariant, PTL
-----------------------------------------------------------------------------
(* Types, and how often a contact can be in the list.                      *)

(* What every step does to the requests and to the list they fill.         *)
ReqStep ==
  \/ UNCHANGED req
  \/ getContacts
  \/ req' = [r \in Request |-> Idle]
  \/ \E r \in Request : AnswerContacts(r) \/ \E c \in Contact : AnswerUser(r, c)

LEMMA ReqSteps == [Next]_vars => ReqStep
<1> SUFFICES ASSUME [Next]_vars PROVE ReqStep
  OBVIOUS
<1> USE DEF ReqStep
<1>1. ASSUME onAuthSuccess \/ startTelegramAuth \/ loadTelegramContacts
             \/ \E st : onAuthStateChanged(st)
      PROVE  UNCHANGED req \/ getContacts
  BY <1>1 DEF onAuthSuccess, startTelegramAuth, showTelegramLoginDialog,
     loadTelegramContacts, onAuthStateChanged
<1>2. CASE UNCHANGED vars
  BY <1>2 DEF vars, contactVars
<1>3. CASE Main
  BY <1>1, <1>3 DEF Main, RunParams, RunLoggedOut, RunUpdateUser, RunUserData,
     RunContacts, RunError, saveUserData, RunState, contactVars
<1>4. CASE Answers
  BY <1>4 DEF Answers, AnswerParams, AnswerMe, AnswerLogout, TdCloses,
     saveUserData, AnswerLogin, contactVars
<1>5. CASE User
  BY <1>1, <1>5 DEF User, OpenSettings, Cancel, Login, EnterPhone, EnterCode,
     EnterPassword, LogOut, ShowContacts, SaveContacts, Tick, Search
<1>6. CASE CreateActivity \/ Kill \/ UserChanges \/ SessionEnds
  BY <1>6 DEF CreateActivity, Kill, UserChanges, SessionEnds, contactVars
<1> QED
  BY <1>2, <1>3, <1>4, <1>5, <1>6 DEF Next

ListStep ==
  \/ UNCHANGED list
  \/ list' = Empty
  \/ \E r \in Request : AnswerContacts(r) \/ \E c \in Contact : AnswerUser(r, c)

LEMMA ListSteps == [Next]_vars => ListStep
<1> SUFFICES ASSUME [Next]_vars PROVE ListStep
  OBVIOUS
<1> USE DEF ListStep
<1>2. CASE UNCHANGED vars
  BY <1>2 DEF vars, contactVars
<1>3. CASE Main
  BY <1>3 DEF Main, RunParams, RunLoggedOut, RunUpdateUser, RunUserData,
     RunContacts, RunError, saveUserData, RunState, contactVars
<1>4. CASE Answers
  BY <1>4 DEF Answers, AnswerParams, AnswerMe, AnswerLogout, TdCloses,
     saveUserData, AnswerLogin, contactVars
<1>5. CASE User
  BY <1>5 DEF User, OpenSettings, Cancel, Login, EnterPhone, EnterCode,
     EnterPassword, LogOut, ShowContacts, SaveContacts, Tick, Search,
     uiConstant
<1>6. CASE CreateActivity \/ Kill \/ UserChanges \/ SessionEnds
  BY <1>6 DEF CreateActivity, Kill, UserChanges, SessionEnds, contactVars
<1> QED
  BY <1>2, <1>3, <1>4, <1>5, <1>6 DEF Next

(* The requests that still wait for contact c.                             *)
Waiting(c) == {r \in Request : c \in req[r].left}

(* A request waits for users only while it is parsed, and each request can *)
(* add a contact once: so often is he in the list at most.                 *)
ReqTypes ==
  /\ req \in [Request -> [at : {"idle", "asked", "users"},
                          left : SUBSET Contact]]
  /\ \A r \in Request : req[r].at # "users" => req[r].left = {}
  /\ list \in [Person -> Nat]
  /\ list[Self] <= 1
  /\ \A c \in Contact :
       list[c] + Cardinality(Waiting(c)) <= Cardinality(Request)

LEMMA WaitingFinite ==
  ASSUME NEW c
  PROVE  /\ IsFiniteSet(Waiting(c))
         /\ Cardinality(Waiting(c)) \in Nat
         /\ Cardinality(Waiting(c)) <= Cardinality(Request)
         /\ Cardinality(Request) \in Nat \ {0}
<1>1. Waiting(c) \subseteq Request /\ IsFiniteSet(Request)
  BY TelegramAssumption DEF Waiting
<1>2. IsFiniteSet(Waiting(c)) /\ Cardinality(Waiting(c)) <= Cardinality(Request)
  BY <1>1, FS_Subset
<1> QED
  BY <1>1, <1>2, FS_CardinalityType, FS_EmptySet, TelegramAssumption

(* So the list is one of those TypeOK allows.                              *)
LEMMA ListType ==
  ASSUME ReqTypes
  PROVE  list \in Lists
<1>1. Cardinality(Request) \in Nat \ {0}
  BY WaitingFinite
<1>2. \A c \in Contact : list[c] \in 0 .. Cardinality(Request)
  BY WaitingFinite DEF ReqTypes, Person
<1>3. list[Self] \in 0 .. Cardinality(Request)
  BY <1>1 DEF ReqTypes, Person
<1> QED
  BY <1>2, <1>3 DEF Lists, Person, ReqTypes

(* Requests are made, answered, and answered user by user; nothing else    *)
(* touches them but the death of the process.                              *)
LEMMA ReqTypesStep ==
  ASSUME ReqTypes, [Next]_vars
  PROVE  ReqTypes'
<1> USE DEF ReqTypes
<1>s. Self \notin Contact /\ Self \in Person /\ Contact \subseteq Person
  BY TelegramAssumption DEF Person
<1>e. Empty \in [Person -> Nat] /\ \A p \in Person : Empty[p] = 0
  BY DEF Empty
<1>1. ASSUME NEW r \in Request, AnswerContacts(r)
      PROVE  ReqTypes'
  <2>1. /\ req[r].at = "asked"
        /\ \/ req' = [req EXCEPT ![r] = Idle]
           \/ req' = [req EXCEPT ![r] = [at |-> "users", left |-> Contact]]
        /\ \/ list' = [Empty EXCEPT ![Self] = IF user THEN 1 ELSE 0]
           \/ list' = list /\ req' = [req EXCEPT ![r] = Idle]
    BY <1>1 DEF AnswerContacts, Remaining
  <2>2. /\ req' \in [Request -> [at : {"idle", "asked", "users"},
                                 left : SUBSET Contact]]
        /\ \A q \in Request : req'[q].at # "users" => req'[q].left = {}
    BY <2>1 DEF Idle
  <2>3. list' \in [Person -> Nat] /\ list'[Self] <= 1
    BY <2>1, <1>s, <1>e
  <2>4. ASSUME NEW c \in Contact
        PROVE  list'[c] + Cardinality(Waiting(c)') <= Cardinality(Request)
    <3>1. CASE list' = [Empty EXCEPT ![Self] = IF user THEN 1 ELSE 0]
      <4>1. list'[c] = 0
        BY <3>1, <1>s, <1>e
      <4>2. Waiting(c)' \subseteq Request
        BY DEF Waiting
      <4>3. IsFiniteSet(Request)
        BY TelegramAssumption
      <4>4. /\ Cardinality(Waiting(c)') <= Cardinality(Request)
            /\ Cardinality(Waiting(c)') \in Nat /\ Cardinality(Request) \in Nat
        BY <4>2, <4>3, FS_Subset, FS_CardinalityType
      <4> QED
        BY <4>1, <4>4
    <3>2. CASE list' = list /\ req' = [req EXCEPT ![r] = Idle]
      <4>1. Waiting(c)' = Waiting(c)
        BY <2>1, <3>2 DEF Waiting, Idle
      <4> QED
        BY <3>2, <4>1
    <3> QED
      BY <2>1, <3>1, <3>2
  <2> QED
    BY <2>2, <2>3, <2>4
<1>2. ASSUME NEW r \in Request, NEW c \in Contact, AnswerUser(r, c)
      PROVE  ReqTypes'
  <2> DEFINE rest == req[r].left \ {c}
  <2>1. /\ c \in req[r].left
        /\ \/ rest = {} /\ req' = [req EXCEPT ![r] = Idle]
           \/ req' = [req EXCEPT ![r] = [at |-> "users", left |-> rest]]
        /\ list' = [list EXCEPT ![c] = @ + 1] \/ list' = list
    BY <1>2 DEF AnswerUser, Remaining
  <2>2. rest \subseteq Contact
    OBVIOUS
  <2>3. req'[r].left = rest /\ \A q \in Request \ {r} : req'[q] = req[q]
    BY <2>1 DEF Idle
  <2>4. /\ req' \in [Request -> [at : {"idle", "asked", "users"},
                                 left : SUBSET Contact]]
        /\ \A q \in Request : req'[q].at # "users" => req'[q].left = {}
    <3> HIDE DEF rest
    <3> QED BY <2>1, <2>2 DEF Idle
  <2>5. list' \in [Person -> Nat] /\ list'[Self] <= 1
    BY <2>1, <1>s
  <2>6. ASSUME NEW d \in Contact
        PROVE  list'[d] + Cardinality(Waiting(d)') <= Cardinality(Request)
    <3>1. CASE d = c
      <4>1. r \in Waiting(c) /\ Waiting(c)' = Waiting(c) \ {r}
        BY <2>1, <2>3 DEF Waiting
      <4>2. /\ Cardinality(Waiting(c)') = Cardinality(Waiting(c)) - 1
            /\ Cardinality(Waiting(c)) \in Nat
        <5> DEFINE W == Waiting(c)
        <5>1. IsFiniteSet(W) /\ Cardinality(W) \in Nat /\ r \in W
          BY <4>1, WaitingFinite
        <5> HIDE DEF W
        <5>2. Cardinality(W \ {r}) = Cardinality(W) - 1
          BY <5>1, FS_RemoveElement
        <5> QED
          BY <4>1, <5>1, <5>2 DEF W
      <4>3. list'[c] <= list[c] + 1 /\ list'[c] \in Nat /\ list[c] \in Nat
        BY <2>1, <2>5, <1>s
      <4> QED
        BY <3>1, <4>2, <4>3, WaitingFinite
    <3>2. CASE d # c
      <4>1. Waiting(d)' = Waiting(d)
        BY <2>3, <3>2 DEF Waiting
      <4>2. list'[d] = list[d]
        BY <2>1, <3>2, <1>s
      <4> QED
        BY <4>1, <4>2
    <3> QED
      BY <3>1, <3>2
  <2> QED
    BY <2>4, <2>5, <2>6
<1>3. CASE ~ \E r \in Request :
               AnswerContacts(r) \/ \E c \in Contact : AnswerUser(r, c)
  <2>1. /\ list' \in [Person -> Nat] /\ list'[Self] <= 1
        /\ \A c \in Contact : list'[c] <= list[c]
    BY <1>3, <1>s, <1>e, ListSteps DEF ListStep
  <2>2. /\ req' \in [Request -> [at : {"idle", "asked", "users"},
                                 left : SUBSET Contact]]
        /\ \A q \in Request : req'[q].at # "users" => req'[q].left = {}
        /\ \A q \in Request : req'[q].left \subseteq req[q].left
    <3>1. CASE UNCHANGED req
      BY <3>1
    <3>2. CASE getContacts
      BY <3>2 DEF getContacts, Idle
    <3>3. CASE req' = [r \in Request |-> Idle]
      BY <3>3 DEF Idle
    <3> QED
      BY <1>3, <3>1, <3>2, <3>3, ReqSteps DEF ReqStep
  <2>3. ASSUME NEW c \in Contact
        PROVE  list'[c] + Cardinality(Waiting(c)') <= Cardinality(Request)
    <3>1. Waiting(c)' \subseteq Waiting(c)
      BY <2>2 DEF Waiting
    <3>2. /\ Cardinality(Waiting(c)') <= Cardinality(Waiting(c))
          /\ Cardinality(Waiting(c)') \in Nat
      BY <3>1, WaitingFinite, FS_Subset, FS_CardinalityType
    <3> QED
      BY <2>1, <3>2, <1>s, WaitingFinite
  <2> QED
    BY <2>1, <2>2, <2>3
<1> QED
  BY <1>1, <1>2, <1>3
(* The queue of the main looper: TDLib posts only where there is room, and *)
(* of what else is posted only one runnable, for a new client, is not in   *)
(* place of one that has run.                                              *)
RoomInv ==
  /\ posts \in Seq(Posts)
  /\ Len(posts) <= MaxPosts + 1
  /\ td = "off" => Len(posts) <= MaxPosts

LEMMA RoomAppend ==
  ASSUME NEW s \in Seq(Posts), NEW m \in Posts
  PROVE  Append(s, m) \in Seq(Posts) /\ Len(Append(s, m)) = Len(s) + 1
BY AppendProperties

LEMMA RoomTail ==
  ASSUME NEW s \in Seq(Posts), s # <<>>
  PROVE  /\ Tail(s) \in Seq(Posts) /\ Len(Tail(s)) = Len(s) - 1
         /\ Head(s) \in Posts /\ Len(s) \in Nat
BY HeadTailProperties, LenProperties

(* What every step does to the queue.                                      *)
PostStep ==
  \/ UNCHANGED posts /\ (td' = "off" => td = "off")
  \/ posts' = <<>>
  \/ /\ posts # <<>> /\ UNCHANGED td
     /\ posts' = Tail(posts) \/ posts' = Append(Tail(posts), "userData")
  \/ /\ TdFree /\ (td' = "off" => td = "off")
     /\ \E m \in Posts : posts' = Append(posts, m)
  \/ td = "off" /\ td' = "params" /\ posts' = Append(posts, "params")

LEMMA PostSteps == [Next]_vars => PostStep
<1> SUFFICES ASSUME [Next]_vars PROVE PostStep
  OBVIOUS
<1> USE DEF PostStep
<1>1. CASE UNCHANGED vars
  BY <1>1 DEF vars, tdVars
<1>2. CASE Main
  <2>1. CASE RunParams \/ RunLoggedOut \/ RunUserData \/ RunContacts \/ RunError
    BY <2>1 DEF RunParams, RunLoggedOut, RunUserData, RunContacts, RunError,
       Take, tdVars
  <2>2. CASE RunUpdateUser
    BY <2>2 DEF RunUpdateUser, updateCurrentUser
  <2>3. CASE saveUserData("main")
    BY <2>3 DEF saveUserData
  <2>4. ASSUME NEW m \in StateNews, RunState(m)
        PROVE  PostStep
    BY <2>4 DEF RunState, Take
  <2> QED
    BY <1>2, <2>1, <2>2, <2>3, <2>4 DEF Main
<1>3. CASE Answers
  <2> USE DEF Posts, Post, SetTd, Refuse, tdVars
  <2>1. CASE AnswerParams
    BY <2>1 DEF AnswerParams, Resumed
  <2>2. CASE AnswerMe
    BY <2>2 DEF AnswerMe, updateCurrentUser
  <2>3. CASE AnswerLogout \/ TdCloses \/ saveUserData("td")
    BY <2>3 DEF AnswerLogout, TdCloses, saveUserData
  <2>4. ASSUME NEW q \in LoginQueries, AnswerLogin(q)
        PROVE  PostStep
    BY <2>4 DEF AnswerLogin
  <2>5. ASSUME NEW r \in Request, AnswerContacts(r)
        PROVE  PostStep
    BY <2>5 DEF AnswerContacts, Remaining
  <2>6. ASSUME NEW r \in Request, NEW c \in Contact, AnswerUser(r, c)
        PROVE  PostStep
    BY <2>6 DEF AnswerUser, Remaining
  <2> QED
    BY <1>3, <2>1, <2>2, <2>3, <2>4, <2>5, <2>6 DEF Answers
<1>4. CASE User
  BY <1>4 DEF User, OpenSettings, Cancel, Login, EnterPhone, EnterCode,
     EnterPassword, LogOut, ShowContacts, SaveContacts, Tick, Search,
     uiConstant
<1>5. CASE CreateActivity
  BY <1>5 DEF CreateActivity, Post
<1>6. CASE Kill \/ UserChanges \/ SessionEnds
  BY <1>6 DEF Kill, UserChanges, SessionEnds, Post, Posts, tdVars
<1> QED
  BY <1>1, <1>2, <1>3, <1>4, <1>5, <1>6 DEF Next

LEMMA RoomStep ==
  ASSUME RoomInv, [Next]_vars
  PROVE  RoomInv'
<1> USE TelegramAssumption DEF RoomInv
<1>1. "params" \in Posts /\ "userData" \in Posts
  BY DEF Posts
<1>2. Len(posts) \in Nat
  BY LenProperties
<1>3. CASE UNCHANGED posts /\ (td' = "off" => td = "off")
  BY <1>3
<1>4. CASE posts' = <<>>
  BY <1>4, EmptySeq
<1>5. CASE /\ posts # <<>> /\ UNCHANGED td
           /\ posts' = Tail(posts) \/ posts' = Append(Tail(posts), "userData")
  <2>1. /\ Tail(posts) \in Seq(Posts) /\ Len(Tail(posts)) = Len(posts) - 1
    BY <1>5, RoomTail
  <2>2. CASE posts' = Tail(posts)
    BY <1>2, <1>5, <2>1, <2>2
  <2>3. CASE posts' = Append(Tail(posts), "userData")
    <3> DEFINE s == Tail(posts)
    <3>1. s \in Seq(Posts) /\ Len(s) = Len(posts) - 1
      BY <2>1
    <3>2. posts' = Append(s, "userData")
      BY <2>3
    <3> HIDE DEF s
    <3>3. posts' \in Seq(Posts) /\ Len(posts') = Len(s) + 1
      BY <1>1, <3>1, <3>2, RoomAppend
    <3>4. Len(posts') = Len(posts)
      BY <1>2, <3>1, <3>3
    <3> QED
      BY <1>5, <3>3, <3>4
  <2> QED
    BY <1>5, <2>2, <2>3
<1>6. CASE /\ TdFree /\ (td' = "off" => td = "off")
           /\ \E m \in Posts : posts' = Append(posts, m)
  <2>1. posts' \in Seq(Posts) /\ Len(posts') = Len(posts) + 1
    BY <1>6, RoomAppend
  <2> QED
    BY <1>2, <1>6, <2>1 DEF TdFree
<1>7. CASE td = "off" /\ td' = "params" /\ posts' = Append(posts, "params")
  BY <1>1, <1>2, <1>7, RoomAppend
<1> QED
  BY <1>3, <1>4, <1>5, <1>6, <1>7, PostSteps DEF PostStep

(* The state of TDLib, of its threads and of the helper.                   *)
StateTypes ==
  /\ td \in TdStates /\ session \in Resumed
  /\ asked \subseteq {"params", "phone", "code", "password", "me", "logout"}
  /\ saver \subseteq {"main", "td"}
  /\ auth \in AuthStates
  /\ cb \in {"none", "activity", "dialog"}
  /\ {user, stored, left, failed} \subseteq BOOLEAN

LEMMA StateTypesStep ==
  ASSUME StateTypes, [Next]_vars
  PROVE  StateTypes'
<1> USE DEF StateTypes, TdStates, AuthStates, Resumed
<1>1. CASE UNCHANGED vars
  BY <1>1 DEF vars, tdVars, contactVars, diskVars
<1>2. CASE Main
  <2> USE DEF tdVars, contactVars, diskVars
  <2>1. CASE RunParams \/ RunLoggedOut \/ RunUserData \/ RunContacts \/ RunError
    BY <2>1 DEF RunParams, RunLoggedOut, RunUserData, RunContacts, RunError
  <2>2. CASE RunUpdateUser
    BY <2>2 DEF RunUpdateUser, updateCurrentUser
  <2>3. CASE saveUserData("main")
    BY <2>3 DEF saveUserData
  <2>4. ASSUME NEW m \in StateNews, RunState(m)
        PROVE  StateTypes'
    <3>1. AuthOf(m) \in AuthStates
      BY DEF AuthOf, StateNews
    <3> QED
      BY <2>4, <3>1 DEF RunState
  <2> QED
    BY <1>2, <2>1, <2>2, <2>3, <2>4 DEF Main
<1>3. CASE Answers
  <2> USE DEF tdVars, contactVars, diskVars, SetTd, Refuse
  <2>1. CASE AnswerParams
    BY <2>1 DEF AnswerParams
  <2>2. CASE AnswerMe
    BY <2>2 DEF AnswerMe, updateCurrentUser
  <2>3. CASE AnswerLogout \/ TdCloses \/ saveUserData("td")
    BY <2>3 DEF AnswerLogout, TdCloses, saveUserData
  <2>4. ASSUME NEW q \in LoginQueries, AnswerLogin(q)
        PROVE  StateTypes'
    BY <2>4 DEF AnswerLogin, LoginQueries
  <2>5. ASSUME NEW r \in Request, AnswerContacts(r)
        PROVE  StateTypes'
    BY <2>5 DEF AnswerContacts
  <2>6. ASSUME NEW r \in Request, NEW c \in Contact, AnswerUser(r, c)
        PROVE  StateTypes'
    BY <2>6 DEF AnswerUser
  <2> QED
    BY <1>3, <2>1, <2>2, <2>3, <2>4, <2>5, <2>6 DEF Answers
<1>4. CASE User
  <2>1. /\ UNCHANGED <<td, saver, session, auth, user, left, failed>>
        /\ stored' = stored \/ stored' = FALSE
        /\ cb' = cb \/ cb' = "dialog"
    BY <1>4 DEF User, OpenSettings, Cancel, Login, EnterPhone, EnterCode,
       EnterPassword, LogOut, ShowContacts, SaveContacts, Tick, Search,
       uiConstant
  <2>2. asked' \in {asked} \cup {asked \cup {q} :
                                  q \in LoginQueries \cup {"logout"}}
    BY <1>4 DEF User, OpenSettings, Cancel, Login, EnterPhone, EnterCode,
       EnterPassword, LogOut, ShowContacts, SaveContacts, Tick, Search,
       LoginQueries
  <2>3. asked' \subseteq {"params", "phone", "code", "password", "me", "logout"}
    BY <2>2 DEF LoginQueries
  <2>4. stored' \in BOOLEAN /\ cb' \in {"none", "activity", "dialog"}
    BY <2>1
  <2> QED
    BY <2>1, <2>3, <2>4
<1>5. CASE CreateActivity \/ Kill \/ UserChanges \/ SessionEnds
  <2>1. CASE CreateActivity
    BY <2>1 DEF CreateActivity, diskVars
  <2>2. CASE Kill
    BY <2>2 DEF Kill, diskVars
  <2>3. CASE UserChanges
    BY <2>3 DEF UserChanges, tdVars, contactVars, diskVars
  <2>4. CASE SessionEnds
    BY <2>4 DEF SessionEnds, tdVars, contactVars, diskVars
  <2> QED
    BY <1>5, <2>1, <2>2, <2>3, <2>4
<1> QED
  BY <1>1, <1>2, <1>3, <1>4, <1>5 DEF Next
(* The activity's contacts and selection, and the dialog on the screen.    *)
ChosenTypes ==
  /\ telegram \in Lists /\ selected \in Lists
  /\ edited \in BOOLEAN /\ saved \subseteq Person

ScreenTypes ==
  /\ screen \in Screens
  /\ ticks \in [shown : SUBSET Person, ticked : SUBSET Person]
  /\ ticks.ticked \subseteq ticks.shown

(* What every step does to contacts and selection.                         *)
ChosenStep ==
  \/ UNCHANGED <<chosenVars, saved>>
  \/ ForgetContacts /\ (saved' = saved \/ saved' = {})
  \/ onContactsReceived(list) /\ UNCHANGED <<list, saved, ticks>>
  \/ onContactsReceived(list) /\ UNCHANGED <<list, saved>> /\ ticks' = NoTicks
  \/ SaveContacts
  \/ \E p \in Pickable : Tick(p)
  \/ \E S \in SUBSET Person : Search(S)

LEMMA ChosenSteps == [Next]_vars => ChosenStep
<1> SUFFICES ASSUME [Next]_vars PROVE ChosenStep
  OBVIOUS
<1> USE DEF ChosenStep
<1>1. CASE UNCHANGED vars
  BY <1>1 DEF vars, diskVars, chosenVars
<1>2. CASE Main
  <2> USE DEF diskVars, chosenVars, contactVars, screenVars
  <2>1. CASE RunParams \/ RunUserData \/ RunContacts \/ RunError
    BY <2>1 DEF RunParams, RunUserData, RunContacts, RunError
  <2>2. CASE RunUpdateUser \/ saveUserData("main")
    BY <2>2 DEF RunUpdateUser, saveUserData
  <2>3. ASSUME NEW st, onAuthStateChanged(st), UNCHANGED saved
        PROVE  ChosenStep
    BY <2>3 DEF onAuthStateChanged
  <2>4. CASE RunLoggedOut \/ \E m \in StateNews : RunState(m)
    BY <2>3, <2>4 DEF RunLoggedOut, RunState
  <2> QED
    BY <1>2, <2>1, <2>2, <2>4 DEF Main
<1>3. CASE Answers
  BY <1>3 DEF Answers, AnswerParams, AnswerMe, AnswerLogout, TdCloses,
     saveUserData, AnswerLogin, AnswerContacts, AnswerUser, diskVars, chosenVars
<1>4. CASE User
  <2>1. CASE OpenSettings \/ Cancel \/ Login \/ EnterPhone \/ EnterCode
               \/ EnterPassword \/ ShowContacts
    BY <2>1 DEF OpenSettings, Cancel, Login, EnterPhone, EnterCode,
       EnterPassword, ShowContacts
  <2>2. CASE LogOut
    BY <2>2 DEF LogOut
  <2> QED
    BY <1>4, <2>1, <2>2 DEF User
<1>5. CASE CreateActivity
  <2> USE DEF diskVars
  <2> QED
    BY <1>5 DEF CreateActivity
<1>6. CASE Kill \/ UserChanges \/ SessionEnds
  BY <1>6 DEF Kill, UserChanges, SessionEnds, diskVars, chosenVars, ForgetContacts
<1> QED
  BY <1>1, <1>2, <1>3, <1>4, <1>5, <1>6 DEF Next

(* A person selected by a tick counts once, as one of a list.              *)
LEMMA SelectingType ==
  ASSUME ChosenTypes, NEW S, NEW T
  PROVE  /\ Selecting(S, T) \in Lists
         /\ \A p \in Person : Selecting(S, T)[p] > 0
                                <=> p \in T \/ (p \notin S /\ selected[p] > 0)
<1>1. Cardinality(Request) \in Nat \ {0}
  BY WaitingFinite
<1> QED
  BY <1>1 DEF Selecting, ChosenTypes, Lists

LEMMA ChosenTypesStep ==
  ASSUME ReqTypes, ChosenTypes, [Next]_vars
  PROVE  ChosenTypes'
<1>e. Empty \in Lists
  <2>1. Cardinality(Request) \in Nat
    BY WaitingFinite
  <2> QED
    BY <2>1 DEF Empty, Lists
<1> USE DEF ChosenTypes
<1>1. CASE UNCHANGED <<chosenVars, saved>>
  BY <1>1 DEF chosenVars
<1>2. CASE ForgetContacts /\ (saved' = saved \/ saved' = {})
  BY <1>2, <1>e DEF ForgetContacts
<1>3. CASE onContactsReceived(list) /\ UNCHANGED saved
  <2>1. list \in Lists
    BY ListType
  <2>2. telegram' = list /\ edited' = FALSE
        /\ selected' = [p \in Person |-> IF p \in saved THEN list[p] ELSE 0]
    BY <1>3 DEF onContactsReceived
  <2>3. selected' \in Lists
    BY <2>1, <2>2, WaitingFinite DEF Lists
  <2> QED
    BY <1>3, <2>1, <2>2, <2>3
<1>4. CASE SaveContacts
  BY <1>4 DEF SaveContacts, Members
<1>5. ASSUME NEW p \in Pickable, Tick(p)
      PROVE  ChosenTypes'
  BY <1>5, SelectingType DEF Tick
<1>6. ASSUME NEW S \in SUBSET Person, Search(S)
      PROVE  ChosenTypes'
  BY <1>6, SelectingType DEF Search
<1> QED
  BY <1>1, <1>2, <1>3, <1>4, <1>5, <1>6, ChosenSteps DEF ChosenStep

(* What every step does to the screen.                                     *)
ScreenStep ==
  \/ UNCHANGED ticks /\ (screen' = screen \/ screen' \in Screens)
  \/ ticks' = NoTicks /\ screen' \in Screens
  \/ ShowContacts /\ telegram # Empty
  \/ \E p \in Pickable : Tick(p)
  \/ \E S \in SUBSET Person : Search(S)

LEMMA ScreenSteps == [Next]_vars => ScreenStep
<1> SUFFICES ASSUME [Next]_vars PROVE ScreenStep
  OBVIOUS
<1> DEFINE Quiet == \/ UNCHANGED ticks /\ (screen' = screen \/ screen' \in Screens)
                    \/ ticks' = NoTicks /\ screen' \in Screens
<1>q. Quiet => ScreenStep
  BY DEF ScreenStep
<1>s. Settings \in Screens
  BY DEF Settings, Screens
<1>1. ASSUME onAuthSuccess \/ startTelegramAuth \/ loadTelegramContacts
      PROVE  Quiet
  BY <1>1, <1>s DEF onAuthSuccess, startTelegramAuth, showTelegramLoginDialog,
     loadTelegramContacts, screenVars, Screens
<1>2. ASSUME NEW st, onAuthStateChanged(st)
      PROVE  Quiet
  BY <1>2 DEF onAuthStateChanged, screenVars, Screens
<1>3. CASE UNCHANGED vars
  BY <1>3, <1>q DEF vars, screenVars
<1>4. CASE Main
  <2> SUFFICES Quiet
    BY <1>q
  <2>1. CASE RunParams \/ RunContacts \/ RunUpdateUser \/ saveUserData("main")
    BY <2>1 DEF RunParams, RunContacts, RunUpdateUser, saveUserData, screenVars
  <2>2. CASE RunUserData
    BY <1>1, <2>2 DEF RunUserData, screenVars
  <2>3. CASE RunError
    BY <2>3 DEF RunError, screenVars, Screens
  <2>4. CASE RunLoggedOut \/ \E m \in StateNews : RunState(m)
    BY <1>2, <2>4 DEF RunLoggedOut, RunState
  <2> QED
    BY <1>4, <2>1, <2>2, <2>3, <2>4 DEF Main
<1>5. CASE Answers
  BY <1>5, <1>q DEF Answers, AnswerParams, AnswerMe, AnswerLogout, TdCloses,
     saveUserData, AnswerLogin, AnswerContacts, AnswerUser, screenVars
<1>6. CASE User
  <2> USE DEF Show
  <2>1. CASE OpenSettings \/ SaveContacts
    BY <2>1, <1>s, <1>q DEF OpenSettings, SaveContacts
  <2>2. CASE Cancel \/ EnterPhone \/ EnterPassword \/ LogOut
    BY <2>2, <1>q DEF Cancel, EnterPhone, EnterPassword, LogOut, Screens
  <2>3. CASE Login
    BY <2>3, <1>1, <1>q DEF Login
  <2>4. CASE EnterCode
    <3>1. onAuthSuccess \/ Show("none") \/ Show("error")
      BY <2>4 DEF EnterCode
    <3> QED
      BY <1>1, <3>1, <1>q DEF Screens
  <2>5. CASE ShowContacts
    BY <2>5, <1>1, <1>q DEF ShowContacts, ScreenStep
  <2>6. CASE (\E p \in Pickable : Tick(p)) \/ \E S \in SUBSET Person : Search(S)
    BY <2>6 DEF ScreenStep
  <2> HIDE DEF Quiet
  <2> QED
    BY <1>6, <1>q, <2>1, <2>2, <2>3, <2>4, <2>5, <2>6 DEF User, ScreenStep
<1>7. CASE CreateActivity \/ Kill \/ UserChanges \/ SessionEnds
  BY <1>7, <1>q DEF CreateActivity, Kill, UserChanges, SessionEnds, screenVars,
     Screens
<1> QED
  BY <1>3, <1>4, <1>5, <1>6, <1>7 DEF Next

LEMMA ScreenTypesStep ==
  ASSUME ScreenTypes, [Next]_vars
  PROVE  ScreenTypes'
<1> USE DEF ScreenTypes
<1>1. CASE UNCHANGED ticks /\ (screen' = screen \/ screen' \in Screens)
  BY <1>1
<1>2. CASE ticks' = NoTicks /\ screen' \in Screens
  BY <1>2 DEF NoTicks
<1>3. CASE ShowContacts /\ telegram # Empty
  BY <1>3 DEF ShowContacts, Members, Screens
<1>4. ASSUME NEW p \in Pickable, Tick(p)
      PROVE  ScreenTypes'
  BY <1>4 DEF Tick
<1>5. ASSUME NEW S \in SUBSET Person, Search(S)
      PROVE  ScreenTypes'
  BY <1>5 DEF Search
<1> QED
  BY <1>1, <1>2, <1>3, <1>4, <1>5, ScreenSteps DEF ScreenStep

TypeInv == ReqTypes /\ RoomInv /\ StateTypes /\ ChosenTypes /\ ScreenTypes

LEMMA TypeInvariant == Spec => []TypeInv
<1>1. Init => TypeInv
  <2> SUFFICES ASSUME Init PROVE TypeInv
    OBVIOUS
  <2> USE DEF Init
  <2>c. Cardinality(Request) \in Nat
    BY WaitingFinite
  <2>1. ReqTypes
    <3>1. /\ req \in [Request -> [at : {"idle", "asked", "users"},
                                  left : SUBSET Contact]]
          /\ \A r \in Request : req[r].at # "users" => req[r].left = {}
      BY DEF Idle
    <3>2. list \in [Person -> Nat] /\ \A p \in Person : list[p] = 0
      BY DEF Empty
    <3> QED
      BY <3>1, <3>2, WaitingFinite DEF ReqTypes, Person
  <2>2. RoomInv
    BY EmptySeq, TelegramAssumption DEF RoomInv
  <2>3. StateTypes
    BY DEF StateTypes, TdStates, AuthStates, Resumed
  <2>4. ChosenTypes
    <3>1. Empty \in Lists
      BY <2>c DEF Empty, Lists
    <3> QED
      BY <3>1 DEF ChosenTypes
  <2>5. ScreenTypes
    BY DEF ScreenTypes, NoTicks, Screens
  <2> QED
    BY <2>1, <2>2, <2>3, <2>4, <2>5 DEF TypeInv
<1>2. TypeInv /\ [Next]_vars => TypeInv'
  BY ReqTypesStep, RoomStep, StateTypesStep, ChosenTypesStep, ScreenTypesStep
  DEF TypeInv
<1> QED
  BY <1>1, <1>2, PTL DEF Spec

(* Every variable of the client stays within its type; above all, the      *)
(* main looper's queue keeps its bound, and no contact is in the list      *)
(* more often than requests overlap, nor the user himself twice.           *)
THEOREM ClientTypes == Spec => []TypeOK
<1>1. TypeInv => TypeOK
  <2> SUFFICES ASSUME TypeInv PROVE TypeOK
    OBVIOUS
  <2>1. list \in Lists
    BY ListType DEF TypeInv
  <2>2. posts \in Seq(Posts) /\ Len(posts) <= MaxPosts + 2
    BY LenProperties, TelegramAssumption DEF TypeInv, RoomInv
  <2> QED
    BY <2>1, <2>2 DEF TypeInv, TypeOK, ReqTypes, StateTypes, ChosenTypes,
       ScreenTypes
<1> QED
  BY <1>1, TypeInvariant, PTL
-----------------------------------------------------------------------------
(* The helper's state follows TDLib's.                                     *)

(* The latest update of TDLib's state in the queue s, if there is one.     *)
Latest(s) == {s[i] : i \in {j \in 1 .. Len(s) :
                /\ s[j] \in StateNews
                /\ \A k \in j + 1 .. Len(s) : s[k] \notin StateNews}}

(* The states a of the helper that are right for TDLib's.                  *)
Fits(a) ==
  \/ a = AuthOf(td)
  \/ a = "out" /\ td \in {"off", "params", "closing"}
  \/ a = "in" /\ td = "closing"
  \/ a = "out" /\ left

(* What the latest update in the queue will set is right, and what is set  *)
(* if there is none.                                                       *)
FollowInv ==
  /\ NoNews(posts) => Fits(auth)
  /\ \A m \in Latest(posts) : Fits(AuthOf(m))

(* Other messages leave the latest update the latest.                      *)
LEMMA AppendQuiet ==
  ASSUME NEW s \in Seq(Posts), NEW m \in Posts \ StateNews
  PROVE  /\ NoNews(Append(s, m)) => NoNews(s)
         /\ Latest(Append(s, m)) \subseteq Latest(s)
<1>1. /\ Len(Append(s, m)) = Len(s) + 1
      /\ \A i \in 1 .. Len(s) : Append(s, m)[i] = s[i]
      /\ Append(s, m)[Len(s) + 1] = m
  BY AppendProperties
<1>2. Len(s) \in Nat
  BY LenProperties
<1>3. NoNews(Append(s, m)) => NoNews(s)
  BY <1>1, <1>2 DEF NoNews
<1>4. ASSUME NEW i \in 1 .. Len(Append(s, m)),
             Append(s, m)[i] \in StateNews,
             \A k \in i + 1 .. Len(Append(s, m)) :
               Append(s, m)[k] \notin StateNews
      PROVE  Append(s, m)[i] \in Latest(s)
  <2>1. i \in 1 .. Len(s) /\ Append(s, m)[i] = s[i]
    BY <1>1, <1>2, <1>4
  <2>2. \A k \in i + 1 .. Len(s) : s[k] \notin StateNews
    BY <1>1, <1>2, <1>4, <2>1
  <2> QED
    BY <1>4, <2>1, <2>2 DEF Latest
<1> QED
  BY <1>3, <1>4 DEF Latest

(* An update that is posted is the latest.                                 *)
LEMMA AppendNews ==
  ASSUME NEW s \in Seq(Posts), NEW m \in StateNews
  PROVE  ~NoNews(Append(s, m)) /\ Latest(Append(s, m)) \subseteq {m}
<1>0. m \in Posts
  BY DEF StateNews, Posts
<1>1. /\ Len(Append(s, m)) = Len(s) + 1
      /\ Append(s, m)[Len(s) + 1] = m
  BY <1>0, AppendProperties
<1>2. Len(s) \in Nat
  BY LenProperties
<1>3. ASSUME NEW i \in 1 .. Len(Append(s, m)),
             \A k \in i + 1 .. Len(Append(s, m)) :
               Append(s, m)[k] \notin StateNews
      PROVE  i = Len(s) + 1
  BY <1>1, <1>2, <1>3
<1> QED
  BY <1>1, <1>2, <1>3 DEF NoNews, Latest

(* If the last update runs, it was the latest.                             *)
LEMMA TailNews ==
  ASSUME NEW s \in Seq(Posts), s # <<>>
  PROVE  /\ Latest(Tail(s)) \subseteq Latest(s)
         /\ NoNews(Tail(s)) /\ Head(s) \in StateNews => Head(s) \in Latest(s)
         /\ NoNews(Tail(s)) /\ Head(s) \notin StateNews => NoNews(s)
<1>1. /\ Tail(s) \in Seq(Posts)
      /\ Len(Tail(s)) = Len(s) - 1
      /\ \A i \in 1 .. Len(Tail(s)) : Tail(s)[i] = s[i + 1]
  BY HeadTailProperties
<1>2. Len(s) \in Nat /\ Len(s) # 0
  BY LenProperties, EmptySeq
<1>3. Head(s) = s[1]
  BY <1>2
<1>4. \A k \in 2 .. Len(s) :
        k - 1 \in 1 .. Len(Tail(s)) /\ s[k] = Tail(s)[k - 1]
  BY <1>1, <1>2
<1>5. ASSUME NEW i \in 1 .. Len(Tail(s)),
             Tail(s)[i] \in StateNews,
             \A k \in i + 1 .. Len(Tail(s)) : Tail(s)[k] \notin StateNews
      PROVE  Tail(s)[i] \in Latest(s)
  <2>1. i + 1 \in 1 .. Len(s) /\ Tail(s)[i] = s[i + 1]
    BY <1>1, <1>2
  <2>2. \A k \in (i + 1) + 1 .. Len(s) : s[k] \notin StateNews
    BY <1>1, <1>2, <1>4, <1>5
  <2> QED
    BY <1>5, <2>1, <2>2 DEF Latest
<1>6. NoNews(Tail(s)) => \A k \in 2 .. Len(s) : s[k] \notin StateNews
  BY <1>1, <1>4 DEF NoNews
<1>7. NoNews(Tail(s)) /\ Head(s) \in StateNews => Head(s) \in Latest(s)
  BY <1>2, <1>3, <1>6 DEF Latest
<1>8. NoNews(Tail(s)) /\ Head(s) \notin StateNews => NoNews(s)
  BY <1>2, <1>3, <1>6 DEF NoNews
<1> QED
  BY <1>5, <1>7, <1>8 DEF Latest

(* A queue in which no update was posted and none has run.                 *)
QuietQueue ==
  \/ UNCHANGED posts
  \/ \E m \in Posts \ StateNews : posts' = Append(posts, m)
  \/ /\ posts # <<>> /\ Head(posts) \notin StateNews
     /\ posts' = Tail(posts) \/ posts' = Append(Tail(posts), "userData")

LEMMA QuietQueueFollows ==
  ASSUME posts \in Seq(Posts), QuietQueue
  PROVE  /\ NoNews(posts') => NoNews(posts)
         /\ Latest(posts') \subseteq Latest(posts)
<1>1. CASE /\ posts # <<>> /\ Head(posts) \notin StateNews
           /\ posts' = Append(Tail(posts), "userData")
  <2>1. Tail(posts) \in Seq(Posts) /\ "userData" \in Posts \ StateNews
    BY <1>1, RoomTail DEF Posts, StateNews
  <2>2. /\ NoNews(posts') => NoNews(Tail(posts))
        /\ Latest(posts') \subseteq Latest(Tail(posts))
    BY <1>1, <2>1, AppendQuiet
  <2> QED
    BY <1>1, <2>2, TailNews
<1> QED
  BY <1>1, AppendQuiet, TailNews DEF QuietQueue

(* What every step does to the queue and to the two states.                *)
FollowStep ==
  \/ QuietQueue /\ UNCHANGED <<td, auth, left>>
  \/ QuietQueue /\ td = "off" /\ td' = "params" /\ UNCHANGED <<auth, left>>
  \/ /\ UNCHANGED <<posts, auth, left>>
     /\ td \in {"ready", "params"} /\ td' = "closing"
  \/ /\ QuietQueue /\ auth' = "out" /\ left'
     /\ td' = td \/ (td = "ready" /\ td' = "closing")
  \/ \E st \in StateNews : td' = st /\ Post(st) /\ UNCHANGED <<auth, left>>
  \/ \E m \in StateNews : Take(m) /\ auth' = AuthOf(m) /\ UNCHANGED <<td, left>>
  \/ Kill

LEMMA FollowSteps == [Next]_vars => FollowStep
<1> SUFFICES ASSUME [Next]_vars PROVE FollowStep
  OBVIOUS
<1> USE DEF FollowStep, QuietQueue
<1>1. CASE UNCHANGED vars
  BY <1>1 DEF vars, tdVars
<1>2. CASE Main
  <2>1. CASE RunParams \/ RunLoggedOut \/ RunUserData \/ RunContacts \/ RunError
    BY <2>1 DEF RunParams, RunLoggedOut, RunUserData, RunContacts, RunError,
       Take, tdVars, StateNews
  <2>2. CASE RunUpdateUser
    BY <2>2 DEF RunUpdateUser, updateCurrentUser, StateNews
  <2>3. CASE saveUserData("main")
    BY <2>3 DEF saveUserData
  <2>4. ASSUME NEW m \in StateNews, RunState(m)
        PROVE  FollowStep
    BY <2>4 DEF RunState
  <2> QED
    BY <1>2, <2>1, <2>2, <2>3, <2>4 DEF Main
<1>3. CASE Answers
  <2> USE DEF tdVars
  <2>p. {"userData", "loggedOut", "contacts", "error"} \subseteq Posts \ StateNews
    BY DEF Posts, StateNews
  <2>1. CASE AnswerParams
    BY <2>1, <2>p DEF AnswerParams, Refuse, SetTd, Post, Resumed, StateNews
  <2>2. CASE AnswerMe
    BY <2>2, <2>p DEF AnswerMe, updateCurrentUser
  <2>3. CASE AnswerLogout
    <3>1. posts' = Append(posts, "loggedOut")
      BY <2>3 DEF AnswerLogout, Post
    <3> QED
      BY <2>3, <2>p, <3>1 DEF AnswerLogout
  <2>4. CASE TdCloses
    BY <2>4 DEF TdCloses, StateNews
  <2>5. CASE saveUserData("td")
    BY <2>5 DEF saveUserData
  <2>6. ASSUME NEW q \in LoginQueries, AnswerLogin(q)
        PROVE  FollowStep
    BY <2>6, <2>p DEF AnswerLogin, Refuse, SetTd, Post, StateNews
  <2>7. ASSUME NEW r \in Request, AnswerContacts(r)
        PROVE  FollowStep
    BY <2>7, <2>p DEF AnswerContacts, Remaining, Post
  <2>8. ASSUME NEW r \in Request, NEW c \in Contact, AnswerUser(r, c)
        PROVE  FollowStep
    BY <2>8, <2>p DEF AnswerUser, Remaining, Post
  <2> QED
    BY <1>3, <2>1, <2>2, <2>3, <2>4, <2>5, <2>6, <2>7, <2>8 DEF Answers
<1>4. CASE User
  <2>1. UNCHANGED <<posts, td, auth, left>>
    BY <1>4 DEF User, OpenSettings, Cancel, Login, EnterPhone, EnterCode,
       EnterPassword, LogOut, ShowContacts, SaveContacts, Tick, Search,
       uiConstant
  <2> QED
    BY <2>1
<1>5. CASE CreateActivity
  <2>1. "params" \in Posts \ StateNews
    BY DEF Posts, StateNews
  <2> QED
    BY <1>5, <2>1 DEF CreateActivity, Post
<1>6. CASE UserChanges
  <2>1. "updateUser" \in Posts \ StateNews
    BY DEF Posts, StateNews
  <2> QED
    BY <1>6, <2>1 DEF UserChanges, Post, tdVars
<1>7. CASE Kill \/ SessionEnds
  BY <1>7 DEF SessionEnds
<1> QED
  BY <1>1, <1>2, <1>3, <1>4, <1>5, <1>6, <1>7 DEF Next

(* Every step keeps it: TDLib's changes are posted, or are ones the        *)
(* helper's state fits as well.                                            *)
LEMMA FollowInvStep ==
  ASSUME StateTypes, RoomInv, FollowInv, [Next]_vars
  PROVE  FollowInv'
<1>1. posts \in Seq(Posts) /\ auth \in AuthStates
  BY DEF RoomInv, StateTypes
<1>2. \A m \in Latest(posts) : m \in StateNews
  BY DEF Latest
<1>3. \A m \in StateNews : AuthOf(m) \in AuthStates
  BY DEF StateNews, AuthOf, AuthStates
<1>4. ASSUME QuietQueue,
             \A a \in AuthStates : Fits(a) => Fits(a)',
             auth' = auth \/ (auth' = "out" /\ left')
      PROVE  FollowInv'
  <2>1. \A m \in Latest(posts') : Fits(AuthOf(m))'
    BY <1>1, <1>2, <1>3, <1>4, QuietQueueFollows DEF FollowInv
  <2>2. NoNews(posts') => Fits(auth)'
    <3>1. CASE auth' = auth
      BY <1>1, <1>4, <3>1, QuietQueueFollows DEF FollowInv, Fits
    <3>2. CASE auth' = "out" /\ left'
      BY <3>2 DEF Fits
    <3> QED
      BY <1>4, <3>1, <3>2
  <2> QED
    BY <2>1, <2>2 DEF FollowInv
<1>5. CASE QuietQueue /\ UNCHANGED <<td, auth, left>>
  BY <1>4, <1>5 DEF Fits
<1>6. CASE QuietQueue /\ td = "off" /\ td' = "params" /\ UNCHANGED <<auth, left>>
  BY <1>4, <1>6 DEF Fits, AuthOf, AuthStates
<1>7. CASE /\ UNCHANGED <<posts, auth, left>>
           /\ td \in {"ready", "params"} /\ td' = "closing"
  BY <1>4, <1>7 DEF Fits, AuthOf, AuthStates, QuietQueue
<1>8. CASE /\ QuietQueue /\ auth' = "out" /\ left'
           /\ td' = td \/ (td = "ready" /\ td' = "closing")
  BY <1>4, <1>8 DEF Fits, AuthOf, AuthStates
<1>9. ASSUME NEW st \in StateNews, td' = st, Post(st), UNCHANGED <<auth, left>>
      PROVE  FollowInv'
  <2>1. ~NoNews(posts') /\ Latest(posts') \subseteq {st}
    BY <1>1, <1>9, AppendNews DEF Post
  <2>2. Fits(AuthOf(st))'
    BY <1>9 DEF Fits
  <2> QED
    BY <2>1, <2>2 DEF FollowInv
<1>10. ASSUME NEW m \in StateNews, Take(m), auth' = AuthOf(m),
              UNCHANGED <<td, left>>
       PROVE  FollowInv'
  <2>1. posts # <<>> /\ Head(posts) = m /\ posts' = Tail(posts)
    BY <1>10 DEF Take
  <2>2. Latest(posts') \subseteq Latest(posts)
    BY <1>1, <2>1, TailNews
  <2>3. NoNews(posts') => m \in Latest(posts)
    BY <1>1, <1>10, <2>1, TailNews
  <2> QED
    BY <1>10, <2>2, <2>3 DEF FollowInv, Fits
<1>11. CASE Kill
  BY <1>11 DEF Kill, FollowInv, Latest, Fits
<1> QED
  BY <1>5, <1>6, <1>7, <1>8, <1>9, <1>10, <1>11, FollowSteps DEF FollowStep

(* The state that guards every sending follows TDLib's: once the updates   *)
(* posted to the main looper have run it is TDLib's, or that of a logout   *)
(* or of a session that is being closed, however answers handled on        *)
(* TDLib's thread and updates handled on the main one interleave.          *)
THEOREM AuthFollows == Spec => []AuthFollowsTd
<1>1. Init => FollowInv
  BY DEF Init, FollowInv, Latest, Fits
<1>2. TypeInv /\ FollowInv /\ [Next]_vars => FollowInv'
  BY FollowInvStep DEF TypeInv
<1>3. FollowInv => AuthFollowsTd
  BY DEF FollowInv, AuthFollowsTd, Fits
<1> QED
  BY <1>1, <1>2, <1>3, TypeInvariant, PTL DEF Spec-----------------------------------------------------------------------------
(* The activity has all contacts or none.                                  *)

InQueue(m, s) == \E i \in 1 .. Len(s) : s[i] = m

(* A message stays in the queue until it has run.                          *)
LEMMA InQueueStays ==
  ASSUME NEW s \in Seq(Posts), NEW m \in Posts, NEW n \in Posts, InQueue(m, s)
  PROVE  /\ InQueue(m, Append(s, n))
         /\ Head(s) # m => InQueue(m, Tail(s)) /\ InQueue(m, Append(Tail(s), n))
<1>1. Len(s) \in Nat
  BY LenProperties
<1>2. ASSUME NEW t \in Seq(Posts), InQueue(m, t)
      PROVE  InQueue(m, Append(t, n))
  <2>1. /\ Len(Append(t, n)) = Len(t) + 1
        /\ \A i \in 1 .. Len(t) : Append(t, n)[i] = t[i]
    BY AppendProperties
  <2>2. Len(t) \in Nat
    BY LenProperties
  <2> QED
    BY <1>2, <2>1, <2>2 DEF InQueue
<1>3. ASSUME Head(s) # m
      PROVE  Tail(s) \in Seq(Posts) /\ InQueue(m, Tail(s))
  <2>1. PICK i \in 1 .. Len(s) : s[i] = m
    BY DEF InQueue
  <2>2. s # <<>> /\ Head(s) = s[1]
    BY <1>1, <2>1, EmptySeq
  <2>3. /\ Tail(s) \in Seq(Posts) /\ Len(Tail(s)) = Len(s) - 1
        /\ \A k \in 1 .. Len(Tail(s)) : Tail(s)[k] = s[k + 1]
    BY <2>2, HeadTailProperties
  <2>4. i - 1 \in 1 .. Len(Tail(s)) /\ Tail(s)[i - 1] = m
    BY <1>1, <1>3, <2>1, <2>2, <2>3
  <2> QED
    BY <2>3, <2>4 DEF InQueue
<1> QED
  BY <1>2, <1>3

LEMMA InQueueAppended ==
  ASSUME NEW s \in Seq(Posts), NEW m \in Posts
  PROVE  InQueue(m, Append(s, m))
<1>1. Len(Append(s, m)) = Len(s) + 1 /\ Append(s, m)[Len(s) + 1] = m
  BY AppendProperties
<1> QED
  BY <1>1, LenProperties DEF InQueue

(* The list is as it was before the first request, or every contact is in  *)
(* it or still waited for by a request.                                    *)
ListComplete ==
  \/ list = Empty /\ \A r \in Request : req[r].left = {}
  \/ \A c \in Contact : list[c] > 0 \/ \E r \in Request : c \in req[r].left

(* What the activity has is complete, or will be replaced.                 *)
TelegramComplete ==
  \/ telegram = Empty
  \/ Contact \subseteq Members(telegram)
  \/ InQueue("contacts", posts)
  \/ \E r \in Request : req[r] # Idle

CompleteInv ==
  ~failed /\ ~left => ListComplete /\ (cb = "activity" => TelegramComplete)

(* The steps that neither fill the list nor hand it over.                  *)
OtherContactStep ==
  /\ UNCHANGED <<list, failed>>
  /\ UNCHANGED req \/ getContacts
  /\ telegram' = telegram \/ telegram' = Empty
  /\ left => left'
  /\ cb' = "activity" => cb = "activity"
  /\ \/ UNCHANGED posts
     \/ \E m \in Posts : posts' = Append(posts, m)
     \/ /\ posts # <<>> /\ Head(posts) # "contacts"
        /\ posts' = Tail(posts) \/ posts' = Append(Tail(posts), "userData")

ContactStep ==
  \/ OtherContactStep
  \/ left'
  \/ RunContacts
  \/ CreateActivity
  \/ Kill
  \/ \E r \in Request : AnswerContacts(r) \/ \E c \in Contact : AnswerUser(r, c)

LEMMA ContactSteps == [Next]_vars => ContactStep
<1> SUFFICES ASSUME [Next]_vars PROVE ContactStep
  OBVIOUS
<1> USE DEF ContactStep, OtherContactStep
<1>1. ASSUME \/ onAuthSuccess \/ startTelegramAuth \/ loadTelegramContacts
             \/ \E st : onAuthStateChanged(st)
      PROVE  UNCHANGED req \/ getContacts
  BY <1>1 DEF onAuthSuccess, startTelegramAuth, showTelegramLoginDialog,
     loadTelegramContacts, onAuthStateChanged
<1>2. ASSUME NEW st, onAuthStateChanged(st)
      PROVE  telegram' = telegram \/ telegram' = Empty
  BY <1>2 DEF onAuthStateChanged, ForgetContacts, chosenVars
<1>p. StateNews \cup {"params", "loggedOut", "userData", "error", "updateUser"}
        \subseteq Posts \ {"contacts"}
  BY DEF Posts, StateNews
<1>3. CASE UNCHANGED vars
  BY <1>3 DEF vars, contactVars, chosenVars
<1>4. CASE Main
  <2> USE DEF contactVars, chosenVars, Take
  <2>1. CASE RunParams \/ RunError
    BY <2>1 DEF RunParams, RunError
  <2>2. CASE RunLoggedOut \/ \E m \in StateNews : RunState(m)
    BY <1>1, <1>2, <1>p, <2>2 DEF RunLoggedOut, RunState
  <2>3. CASE RunUpdateUser
    BY <2>3 DEF RunUpdateUser, updateCurrentUser
  <2>4. CASE RunUserData
    BY <1>1, <2>4 DEF RunUserData
  <2>5. CASE RunContacts \/ saveUserData("main")
    BY <2>5 DEF saveUserData
  <2> QED
    BY <1>4, <2>1, <2>2, <2>3, <2>4, <2>5 DEF Main
<1>5. CASE Answers
  <2> USE DEF contactVars, chosenVars, SetTd, Refuse, Post
  <2>1. CASE AnswerParams
    <3>1. UNCHANGED posts \/ \E m \in Posts : posts' = Append(posts, m)
      BY <2>1, <1>p DEF AnswerParams, Resumed, StateNews
    <3> QED
      BY <2>1, <3>1 DEF AnswerParams
  <2>2. CASE AnswerMe
    BY <2>2, <1>p DEF AnswerMe, updateCurrentUser
  <2>3. CASE AnswerLogout
    BY <2>3 DEF AnswerLogout
  <2>4. CASE TdCloses \/ saveUserData("td")
    BY <2>4, <1>p DEF TdCloses, saveUserData, StateNews
  <2>5. ASSUME NEW q \in LoginQueries, AnswerLogin(q)
        PROVE  ContactStep
    BY <2>5, <1>p DEF AnswerLogin, StateNews
  <2> QED
    BY <1>5, <2>1, <2>2, <2>3, <2>4, <2>5 DEF Answers
<1>6. CASE User
  <2>1. UNCHANGED <<list, failed, left, posts>>
    BY <1>6 DEF User, OpenSettings, Cancel, Login, EnterPhone, EnterCode,
       EnterPassword, LogOut, ShowContacts, SaveContacts, Tick, Search,
       uiConstant
  <2>2. UNCHANGED req \/ getContacts
    BY <1>1, <1>6 DEF User, OpenSettings, Cancel, Login, EnterPhone, EnterCode,
       EnterPassword, LogOut, ShowContacts, SaveContacts, Tick, Search
  <2>3. /\ telegram' = telegram \/ telegram' = Empty
        /\ cb' = "activity" => cb = "activity"
    BY <1>6 DEF User, OpenSettings, Cancel, Login, EnterPhone, EnterCode,
       EnterPassword, LogOut, ShowContacts, SaveContacts, Tick, Search,
       chosenVars, ForgetContacts
  <2> QED
    BY <2>1, <2>2, <2>3
<1>7. CASE CreateActivity \/ Kill
  BY <1>7
<1>8. CASE UserChanges \/ SessionEnds
  BY <1>8, <1>p DEF UserChanges, SessionEnds, Post, contactVars, chosenVars
<1> QED
  BY <1>3, <1>4, <1>5, <1>6, <1>7, <1>8 DEF Next

(* A list that is complete, or has a request to wait for, is handed over.  *)
LEMMA HandOver ==
  ASSUME ListComplete, telegram' = Empty \/ telegram' = list, UNCHANGED req
  PROVE  TelegramComplete'
<1>1. CASE telegram' = list /\ \A c \in Contact : list[c] > 0
  BY <1>1, TelegramAssumption DEF TelegramComplete, Members, Person
<1>2. CASE telegram' = Empty
  BY <1>2 DEF TelegramComplete
<1>3. ASSUME NEW r \in Request, NEW c \in Contact, c \in req[r].left
      PROVE  TelegramComplete'
  BY <1>3 DEF TelegramComplete, Idle
<1> QED
  BY <1>1, <1>2, <1>3 DEF ListComplete
(* A request that is made leaves the others as they were.                  *)
LEMMA RequestMade ==
  ASSUME ReqTypes, getContacts
  PROVE  /\ \A r \in Request : req'[r].left = req[r].left
         /\ \E r \in Request : req'[r] # Idle
<1>1. PICK r \in Request : req' = [req EXCEPT ![r].at = "asked"]
  BY DEF getContacts
<1>2. req'[r].at = "asked"
  BY <1>1 DEF ReqTypes
<1> QED
  BY <1>1, <1>2 DEF ReqTypes, Idle

LEMMA CompleteStep ==
  ASSUME TypeInv, CompleteInv, [Next]_vars
  PROVE  CompleteInv'
<1> USE DEF TypeInv
<1>s. Self \notin Contact /\ Self \in Person /\ Contact \subseteq Person
  BY TelegramAssumption DEF Person
<1>p. "contacts" \in Posts /\ "userData" \in Posts
  BY DEF Posts
<1>q. posts \in Seq(Posts)
  BY DEF RoomInv
<1>1. CASE OtherContactStep
  <2> SUFFICES ASSUME ~failed, ~left, ListComplete,
                      cb = "activity" => TelegramComplete
               PROVE  ListComplete' /\ (cb' = "activity" => TelegramComplete')
    BY <1>1 DEF CompleteInv, OtherContactStep
  <2>1. ListComplete'
    BY <1>1, RequestMade DEF ListComplete, OtherContactStep
  <2>2. InQueue("contacts", posts) => InQueue("contacts", posts')
    BY <1>1, <1>p, <1>q, InQueueStays DEF OtherContactStep
  <2>3. (\E r \in Request : req[r] # Idle) => \E r \in Request : req'[r] # Idle
    BY <1>1, RequestMade DEF OtherContactStep
  <2>4. telegram' = telegram => Members(telegram') = Members(telegram)
    OBVIOUS
  <2>5. cb' = "activity" => TelegramComplete'
    BY <1>1, <2>2, <2>3, <2>4 DEF OtherContactStep, TelegramComplete
  <2> QED
    BY <2>1, <2>5
<1>2. CASE left'
  BY <1>2 DEF CompleteInv
<1>3. CASE RunContacts
  <2>1. UNCHANGED <<req, list, failed, left, cb>>
    BY <1>3 DEF RunContacts, contactVars
  <2>2. cb = "activity" => telegram' = list
    BY <1>3 DEF RunContacts, onContactsReceived
  <2>3. ListComplete => ListComplete'
    BY <2>1 DEF ListComplete
  <2> QED
    BY <2>1, <2>2, <2>3, HandOver DEF CompleteInv
<1>4. CASE CreateActivity
  <2>1. UNCHANGED <<list, failed, left>> /\ (telegram' = Empty \/ telegram' = list)
        /\ (UNCHANGED req \/ getContacts)
    BY <1>4 DEF CreateActivity, ForgetContacts, onContactsReceived
  <2>2. ListComplete => ListComplete'
    BY <2>1, RequestMade DEF ListComplete
  <2>3. ListComplete => TelegramComplete'
    BY <2>1, HandOver, RequestMade DEF TelegramComplete
  <2> QED
    BY <2>1, <2>2, <2>3 DEF CompleteInv
<1>5. CASE Kill
  <2>1. list' = Empty /\ telegram' = Empty /\ \A r \in Request : req'[r].left = {}
    BY <1>5 DEF Kill, Idle
  <2> QED
    BY <2>1 DEF CompleteInv, ListComplete, TelegramComplete
<1>6. ASSUME NEW r \in Request, AnswerContacts(r), ~failed'
      PROVE  CompleteInv'
  <2>1. /\ UNCHANGED <<telegram, cb, left>>
        /\ list' = [Empty EXCEPT ![Self] = IF user THEN 1 ELSE 0]
        /\ Remaining(r, Contact)
    BY <1>6 DEF AnswerContacts, chosenVars
  <2>2. CASE Contact = {}
    BY <2>2 DEF CompleteInv, ListComplete, TelegramComplete
  <2>3. CASE Contact # {}
    <3>1. req' = [req EXCEPT ![r] = [at |-> "users", left |-> Contact]]
      BY <2>1, <2>3 DEF Remaining
    <3>2. req'[r].left = Contact /\ req'[r].at = "users"
      BY <3>1 DEF ReqTypes
    <3> QED
      BY <3>2 DEF CompleteInv, ListComplete, TelegramComplete, Idle
  <2> QED
    BY <2>2, <2>3
<1>7. ASSUME NEW r \in Request, NEW c \in Contact, AnswerUser(r, c), ~failed'
      PROVE  CompleteInv'
  <2> DEFINE rest == req[r].left \ {c}
  <2>1. /\ c \in req[r].left /\ UNCHANGED <<telegram, cb, left, failed>>
        /\ list' = [list EXCEPT ![c] = @ + 1]
        /\ Remaining(r, rest)
    BY <1>7 DEF AnswerUser, chosenVars
  <2>2. /\ \A q \in Request \ {r} : req'[q] = req[q]
        /\ req'[r].left = rest
        /\ rest # {} => req'[r].at = "users"
        /\ rest = {} => InQueue("contacts", posts')
    <3> HIDE DEF rest
    <3>1. CASE rest = {}
      <4>1. posts' = Append(posts, "contacts") /\ req' = [req EXCEPT ![r] = Idle]
        BY <2>1, <3>1 DEF Remaining, Post
      <4> QED
        BY <3>1, <4>1, <1>p, <1>q, InQueueAppended DEF ReqTypes, Idle
    <3>2. CASE rest # {}
      BY <2>1, <3>2 DEF Remaining, ReqTypes
    <3> QED
      BY <3>1, <3>2
  <2>3. list'[c] > 0 /\ \A d \in Contact \ {c} : list'[d] = list[d]
    BY <2>1, <1>s DEF ReqTypes
  <2>4. TelegramComplete'
    BY <2>2 DEF TelegramComplete, Idle
  <2>5. ListComplete => ListComplete'
    BY <2>1, <2>2, <2>3 DEF ListComplete
  <2> QED
    BY <1>7, <2>1, <2>4, <2>5 DEF CompleteInv
<1>8. ASSUME failed'
      PROVE  CompleteInv'
  BY <1>8 DEF CompleteInv
<1> QED
  BY <1>1, <1>2, <1>3, <1>4, <1>5, <1>6, <1>7, <1>8, ContactSteps DEF ContactStep

LEMMA CompleteInvariant == Spec => []CompleteInv
<1>1. Init => CompleteInv
  BY DEF Init, CompleteInv, ListComplete, TelegramComplete, Idle
<1>2. TypeInv /\ CompleteInv /\ [Next]_vars => CompleteInv'
  BY CompleteStep
<1> QED
  BY <1>1, <1>2, TypeInvariant, PTL DEF Spec

(* When no request is in progress and its callback has run, the activity   *)
(* shows all contacts or none, however requests overlap, share the one     *)
(* contactsList, and an activity is created between two of their answers.  *)
THEOREM ContactsAreComplete == Spec => []AllContacts
<1>1. Inv /\ TypeInv /\ CompleteInv => AllContacts
  BY DEF Inv, LogoutInv, CompleteInv, TelegramComplete, AllContacts, AtRest,
     InQueue, TypeInv, RoomInv
<1> QED
  BY <1>1, LogoutInvariant, TypeInvariant, CompleteInvariant, PTL-----------------------------------------------------------------------------
(* The selection is the one the user saved.                                *)

(* The user himself is in the list only as long as he is known; and what   *)
(* the activity shows and has selected of him comes from that list.        *)
SelfInv ==
  ~left =>
    /\ list[Self] > 0 => user
    /\ Self \in ticks.shown \/ selected[Self] > 0 \/ telegram[Self] > 0 =>
         list[Self] > 0
    /\ Self \in ticks.shown \/ selected[Self] > 0 =>
         telegram = Empty \/ telegram[Self] > 0

SelectionInv ==
  ~edited =>
    /\ Members(selected) \subseteq saved
    /\ saved \cap Members(telegram) \subseteq Members(selected)

(* Once known the user stays in the list, until he logs out.               *)
SelfStep ==
  \/ Kill
  \/ left'
  \/ /\ ~left
     /\ user => user'
     /\ list'[Self] > 0 => list[Self] > 0 \/ user'
     /\ list[Self] > 0 /\ user => list'[Self] > 0

LEMMA SelfSteps == TypeInv /\ [Next]_vars => SelfStep
<1> SUFFICES ASSUME TypeInv, [Next]_vars PROVE SelfStep
  OBVIOUS
<1>s. Self \notin Contact /\ Self \in Person
  BY TelegramAssumption DEF Person
<1>1. Kill \/ left' \/ (~left /\ (user => user'))
  <2>1. CASE UNCHANGED vars
    BY <2>1 DEF vars
  <2>2. CASE Main
    BY <2>2 DEF Main, RunParams, RunLoggedOut, RunUpdateUser, RunUserData,
       RunContacts, RunError, saveUserData, RunState, updateCurrentUser
  <2>3. CASE Answers
    BY <2>3 DEF Answers, AnswerParams, AnswerMe, AnswerLogout, TdCloses,
       saveUserData, AnswerLogin, AnswerContacts, AnswerUser, updateCurrentUser
  <2>4. CASE User
    BY <2>4 DEF User, OpenSettings, Cancel, Login, EnterPhone, EnterCode,
       EnterPassword, LogOut, ShowContacts, SaveContacts, Tick, Search,
       uiConstant
  <2>5. CASE CreateActivity \/ Kill \/ UserChanges \/ SessionEnds
    BY <2>5 DEF CreateActivity, UserChanges, SessionEnds
  <2> QED
    BY <2>1, <2>2, <2>3, <2>4, <2>5 DEF Next
<1>2. \/ Kill \/ left' \/ UNCHANGED list
      \/ \E r \in Request : AnswerContacts(r) \/ \E c \in Contact : AnswerUser(r, c)
  BY ContactSteps DEF ContactStep, OtherContactStep, RunContacts, CreateActivity,
     contactVars
<1>3. ASSUME NEW r \in Request, AnswerContacts(r)
      PROVE  /\ list'[Self] > 0 => list[Self] > 0 \/ user'
             /\ list[Self] > 0 /\ user => list'[Self] > 0
  <2>1. /\ UNCHANGED user
        /\ list' = list \/ list' = [Empty EXCEPT ![Self] = IF user THEN 1 ELSE 0]
    BY <1>3 DEF AnswerContacts
  <2> QED
    BY <2>1, <1>s DEF Empty
<1>4. ASSUME NEW r \in Request, NEW c \in Contact, AnswerUser(r, c)
      PROVE  list'[Self] = list[Self]
  BY <1>4, <1>s DEF AnswerUser, TypeInv, ReqTypes
<1> QED
  BY <1>1, <1>2, <1>3, <1>4 DEF SelfStep

(* The rows of the contacts dialog are of the activity's contacts.         *)
LEMMA ShownStep ==
  ASSUME [Next]_vars, Self \in ticks'.shown, ScreenTypes
  PROVE  Self \in ticks.shown \/ telegram[Self] > 0
<1>1. ASSUME NEW p \in Pickable, Tick(p)
      PROVE  ticks'.shown = ticks.shown
  BY <1>1 DEF Tick, ScreenTypes
<1>2. ASSUME NEW S \in SUBSET Person, Search(S)
      PROVE  ticks'.shown \subseteq Members(telegram)
  BY <1>2 DEF Search
<1>3. CASE ShowContacts /\ telegram # Empty
  BY <1>3 DEF ShowContacts, Members
<1> QED
  BY <1>1, <1>2, <1>3, ScreenSteps DEF ScreenStep, NoTicks, Members

LEMMA SelfInvStep ==
  ASSUME TypeInv, SelfInv, [Next]_vars
  PROVE  SelfInv'
<1> USE DEF TypeInv
<1>s. Self \in Person
  BY DEF Person
<1>1. CASE Kill
  BY <1>1, <1>s DEF Kill, SelfInv, Empty, NoTicks
<1>2. CASE left'
  BY <1>2 DEF SelfInv
<1>3. CASE /\ ~left
           /\ user => user'
           /\ list'[Self] > 0 => list[Self] > 0 \/ user'
           /\ list[Self] > 0 /\ user => list'[Self] > 0
  <2> DEFINE Chosen(t, s) == /\ s[Self] > 0 \/ t[Self] > 0 => list[Self] > 0
                             /\ s[Self] > 0 => t = Empty \/ t[Self] > 0
  <2>1. /\ list[Self] > 0 => user
        /\ list[Self] > 0 => list'[Self] > 0
        /\ list'[Self] > 0 => user'
    BY <1>3 DEF SelfInv
  <2>2. Self \in ticks.shown \/ telegram[Self] > 0 =>
          list[Self] > 0 /\ (telegram = Empty \/ telegram[Self] > 0)
    BY <1>3 DEF SelfInv
  <2>3. Self \in ticks'.shown =>
          list[Self] > 0 /\ (telegram = Empty \/ telegram[Self] > 0)
    BY <2>2, ShownStep
  <2>4. Chosen(telegram, selected)
    BY <1>3 DEF SelfInv
  <2>5. /\ Chosen(telegram', selected')
        /\ \/ telegram' = Empty \/ telegram' = telegram
           \/ telegram' = list
    <3>1. CASE UNCHANGED <<chosenVars, saved>>
      BY <2>4, <3>1 DEF chosenVars
    <3>2. CASE ForgetContacts
      BY <3>2, <1>s DEF ForgetContacts, Empty
    <3>3. CASE onContactsReceived(list)
      BY <3>3, <1>s DEF onContactsReceived
    <3>4. CASE SaveContacts
      BY <2>4, <3>4 DEF SaveContacts
    <3>5. ASSUME NEW p \in Pickable, Tick(p)
          PROVE  /\ Chosen(telegram', selected') /\ telegram' = telegram
      <4>1. /\ telegram' = telegram /\ p \in ticks.shown
            /\ \E T \in SUBSET {p} : selected' = Selecting({p}, T)
        BY <3>5 DEF Tick
      <4>2. selected'[Self] > 0 => Self \in ticks.shown \/ selected[Self] > 0
        BY <4>1, <1>s, SelectingType
      <4> QED
        BY <1>3, <4>1, <4>2 DEF SelfInv
    <3>6. ASSUME NEW S \in SUBSET Person, Search(S)
          PROVE  /\ Chosen(telegram', selected') /\ telegram' = telegram
      <4>1. /\ telegram' = telegram
            /\ selected' = Selecting(ticks.shown, ticks.ticked)
        BY <3>6 DEF Search
      <4>2. selected'[Self] > 0 => Self \in ticks.shown \/ selected[Self] > 0
        BY <4>1, <1>s, SelectingType DEF ScreenTypes
      <4> QED
        BY <1>3, <4>1, <4>2 DEF SelfInv
    <3> HIDE DEF Chosen
    <3> QED
      BY <3>1, <3>2, <3>3, <3>4, <3>5, <3>6, ChosenSteps
      DEF ChosenStep, ForgetContacts, onContactsReceived, SaveContacts, chosenVars
  <2> QED
    BY <2>1, <2>3, <2>5 DEF SelfInv
<1> QED
  BY <1>1, <1>2, <1>3, SelfSteps DEF SelfStep

LEMMA SelectionInvStep ==
  ASSUME TypeInv, SelectionInv, [Next]_vars
  PROVE  SelectionInv'
<1> USE DEF SelectionInv, Members
<1>1. CASE UNCHANGED <<chosenVars, saved>>
  BY <1>1 DEF chosenVars
<1>2. CASE ForgetContacts
  BY <1>2 DEF ForgetContacts, Empty
<1>3. CASE onContactsReceived(list) /\ UNCHANGED saved
  BY <1>3 DEF onContactsReceived
<1>4. CASE SaveContacts
  BY <1>4 DEF SaveContacts
<1>5. CASE (\E p \in Pickable : Tick(p)) \/ \E S \in SUBSET Person : Search(S)
  BY <1>5 DEF Tick, Search
<1> QED
  BY <1>1, <1>2, <1>3, <1>4, <1>5, ChosenSteps DEF ChosenStep

(* Whenever the contacts are at rest the selection is the one on disk, as  *)
(* far as the contacts go, unless the user has edited it since: a segment  *)
(* goes to whom he chose, after a restart and a new activity too.          *)
THEOREM SelectionIsRestored == Spec => []SelectionRestored
<1>1. Init => SelfInv /\ SelectionInv
  BY DEF Init, SelfInv, SelectionInv, Members, Empty, NoTicks, Person
<1>2. TypeInv /\ SelfInv /\ SelectionInv /\ [Next]_vars =>
        SelfInv' /\ SelectionInv'
  BY SelfInvStep, SelectionInvStep
<1>3. Inv /\ SelfInv /\ SelectionInv /\ AllContacts => SelectionRestored
  <2> SUFFICES ASSUME Inv, SelfInv, SelectionInv, AllContacts, AtRest,
                      telegram # Empty, ~edited
               PROVE  Members(selected) = saved \cap Members(telegram)
    BY DEF SelectionRestored
  <2>1. ~left
    BY DEF Inv, LogoutInv, AtRest
  <2>2. Members(selected) \subseteq Members(telegram)
    BY <2>1 DEF AllContacts, SelfInv, Members, Person
  <2> QED
    BY <2>2 DEF SelectionInv
<1> QED
  BY <1>1, <1>2, <1>3, LogoutInvariant, TypeInvariant, ContactsAreComplete, PTL
  DEF Spec
=============================================================================
