----------------------------- MODULE TelegramAuth ------------------------------
(***************************************************************************)
(* The Telegram client of the application: the singleton                   *)
(* TelegramAuthHelper between TDLib, which answers queries and sends       *)
(* updates on a thread of its own, and MainActivity with its dialogs,      *)
(* which run on the main thread.                                           *)
(*                                                                         *)
(* TDLib's updates and the helper's callbacks are posted to the main       *)
(* looper in order (posts); an answer is handled on TDLib's thread.  Both  *)
(* threads write currentUser, the stored user and the contact list, with   *)
(* no lock that the other one takes.  The helper has one callback: the     *)
(* activity's, or that of the code dialog, whoever called init last.       *)
(*                                                                         *)
(* The process may be killed at any time; what is stored on disk stays.    *)
(* One activity is modelled, that of the latest onCreate.                  *)
(***************************************************************************)
EXTENDS Naturals, Sequences, FiniteSets

CONSTANTS
  Contact,   \* the contacts of the account
  Self,      \* the account itself: the entry of its saved messages
  Pickable,  \* bound: the people the user may select
  Request,   \* bound: requests for the contacts in progress together
  MaxPosts   \* bound: runnables in the main looper's queue

ASSUME TelegramAssumption ==
  /\ IsFiniteSet(Contact) /\ Self \notin Contact
  /\ Pickable \subseteq Contact \cup {Self}
  /\ IsFiniteSet(Request) /\ Request # {} /\ MaxPosts \in Nat \ {0}

Person == Contact \cup {Self}

VARIABLES
  (* TDLib *)
  td,       \* its authorization state; "off" while there is no client
  asked,    \* the queries it has not answered
  req,      \* request -> its stage and the users not yet answered
  saver,    \* the threads between updateCurrentUser and saveUserData
  (* the main looper *)
  posts,
  (* TelegramAuthHelper *)
  auth,     \* currentAuthState
  cb,       \* authCallback: "none", "activity" or "dialog"
  user,     \* whether currentUser is known
  list,     \* contactsList: how often each person is in it
  (* on disk *)
  stored,   \* whether telegram_auth_prefs has a user_id
  saved,    \* selected_contacts
  session,  \* the authorization state a new client resumes
  (* MainActivity *)
  telegram, \* telegramContacts
  selected, \* selectedContacts
  screen,   \* the dialog on top
  ticks,    \* the contacts dialog: its rows and those ticked
  (* history, read by properties only *)
  left,     \* the user has logged out in this process
  failed,   \* a query for contacts has failed in this process
  edited    \* the selection was edited and not saved

tdVars       == <<td, asked, saver>>
contactVars  == <<req, list, failed>>
diskVars     == <<stored, saved, session>>
chosenVars   == <<telegram, selected, edited>>
screenVars   == <<screen, ticks>>
vars == <<tdVars, contactVars, posts, auth, cb, user, diskVars, chosenVars,
          screenVars, left>>

-----------------------------------------------------------------------------
TdStates == {"off", "params", "phone", "code", "password", "ready",
             "closing", "closed"}

(* What TDLib's database holds: a login half done, a session, or an        *)
(* unfinished logout.                                                      *)
Resumed == {"phone", "code", "password", "ready", "closing"}

AuthStates == {"out", "phone", "code", "password", "in"}

Screens == {"none", "in", "out", "phone", "code", "password", "contacts",
            "error"}

Posts == {"params", "phone", "code", "password", "ready", "closed",
          "updateUser", "userData", "contacts", "loggedOut", "error"}

StateNews == {"phone", "code", "password", "ready", "closed"}

Idle    == [at |-> "idle", left |-> {}]
Empty   == [p \in Person |-> 0]
NoTicks == [shown |-> {}, ticked |-> {}]

Members(l) == {p \in Person : l[p] > 0}
Lists == [Person -> 0 .. Cardinality(Request)]

TypeOK ==
  /\ td \in TdStates
  /\ asked \subseteq {"params", "phone", "code", "password", "me", "logout"}
  /\ req \in [Request -> [at : {"idle", "asked", "users"}, left : SUBSET Contact]]
  /\ saver \subseteq {"main", "td"}
  /\ posts \in Seq(Posts) /\ Len(posts) <= MaxPosts + 2
  /\ auth \in AuthStates
  /\ cb \in {"none", "activity", "dialog"}
  /\ {user, stored, left, failed, edited} \subseteq BOOLEAN
  /\ session \in Resumed
  /\ {list, telegram, selected} \subseteq Lists
  /\ list[Self] <= 1
  /\ saved \subseteq Person
  /\ screen \in Screens
  /\ ticks.ticked \subseteq ticks.shown /\ ticks.shown \subseteq Person

Init ==
  /\ td = "off" /\ asked = {} /\ saver = {} /\ posts = <<>>
  /\ req = [r \in Request |-> Idle] /\ list = Empty /\ failed = FALSE
  /\ auth = "out" /\ cb = "none" /\ user = FALSE
  /\ stored = FALSE /\ saved = {} /\ session = "phone"
  /\ telegram = Empty /\ selected = Empty /\ edited = FALSE
  /\ screen = "none" /\ ticks = NoTicks
  /\ left = FALSE

-----------------------------------------------------------------------------
(* What the callbacks and the activity's methods do.                       *)

Post(m) == posts' = Append(posts, m)

IsAuthenticated == auth = "in" /\ stored

getContacts ==
  \E r \in Request : req[r] = Idle /\ req' = [req EXCEPT ![r].at = "asked"]

Settings == IF IsAuthenticated THEN "in" ELSE "out"

(* onAuthSuccess of startTelegramAuth: loads the contacts, then shows the  *)
(* settings over whatever loading has shown.                               *)
onAuthSuccess ==
  /\ IF IsAuthenticated THEN getContacts ELSE UNCHANGED req
  /\ screen' = Settings
  /\ ticks' = NoTicks

showTelegramLoginDialog ==
  IF IsAuthenticated
  THEN onAuthSuccess
  ELSE screen' = "phone" /\ ticks' = NoTicks /\ UNCHANGED req

startTelegramAuth == showTelegramLoginDialog

loadTelegramContacts ==
  IF IsAuthenticated
  THEN getContacts /\ UNCHANGED screenVars
  ELSE startTelegramAuth

(* Variant of onContactsReceived: the selection is taken from the list the *)
(* activity had before.                                                    *)
RestoresFromOldList(l) ==
  /\ telegram' = l
  /\ selected' = [p \in Person |-> IF p \in saved THEN telegram[p] ELSE 0]
  /\ edited' = FALSE

(* The selection is restored from the disk, each time a contact is in l.   *)
onContactsReceived(l) ==
  /\ telegram' = l
  /\ selected' = [p \in Person |-> IF p \in saved THEN l[p] ELSE 0]
  /\ edited' = FALSE

ForgetContacts == telegram' = Empty /\ selected' = Empty /\ edited' = FALSE

(* authCallback.onAuthStateChanged(st), where auth has become st.          *)
onAuthStateChanged(st) ==
  \/ /\ cb = "activity" /\ st = "in"
     /\ IF stored THEN getContacts /\ UNCHANGED screenVars
                  ELSE screen' = "phone" /\ ticks' = NoTicks /\ UNCHANGED req
     /\ UNCHANGED chosenVars
  \/ /\ cb = "activity" /\ st = "out"
     /\ ForgetContacts
     /\ UNCHANGED <<req, screenVars>>
  \/ /\ cb = "dialog" /\ st = "password"
     /\ screen' = "password" /\ ticks' = NoTicks
     /\ UNCHANGED <<req, chosenVars>>
  \/ /\ cb = "activity" => st \notin {"in", "out"}
     /\ cb = "dialog" => st # "password"
     /\ UNCHANGED <<req, screenVars, chosenVars>>

-----------------------------------------------------------------------------
(* The activity is created, or created again, and the process may die.     *)

MainFree == "main" \notin saver

(* init with the activity's callback: a new client (whose creation may     *)
(* fail), or the state the helper already has.                             *)
CreateActivity ==
  /\ MainFree
  /\ cb' = "activity"
  /\ ticks' = NoTicks
  /\ \/ /\ td = "off"
        /\ \/ td' = "params" /\ Post("params")
           \/ UNCHANGED <<td, posts>>
        /\ screen' = "none"
        /\ UNCHANGED req
        /\ ForgetContacts
     \/ /\ td # "off" /\ auth = "in"
        /\ IF stored THEN getContacts /\ screen' = "none"
                     ELSE screen' = "phone" /\ UNCHANGED req
        /\ IF list = Empty THEN ForgetContacts ELSE onContactsReceived(list)
        /\ UNCHANGED <<td, posts>>
     \/ /\ td # "off" /\ auth # "in"
        /\ screen' = "none"
        /\ ForgetContacts
        /\ UNCHANGED <<td, posts, req>>
  /\ UNCHANGED <<asked, saver, list, failed, auth, user, left>>
  /\ UNCHANGED diskVars

(* Only what is on disk is left.                                           *)
Kill ==
  /\ cb # "none"
  /\ td' = "off" /\ asked' = {} /\ saver' = {} /\ posts' = <<>>
  /\ req' = [r \in Request |-> Idle] /\ list' = Empty /\ failed' = FALSE
  /\ auth' = "out" /\ cb' = "none" /\ user' = FALSE
  /\ telegram' = Empty /\ selected' = Empty /\ edited' = FALSE
  /\ screen' = "none" /\ ticks' = NoTicks
  /\ left' = FALSE
  /\ UNCHANGED diskVars

-----------------------------------------------------------------------------
(* The main looper.                                                        *)

Take(m) == MainFree /\ posts # <<>> /\ Head(posts) = m /\ posts' = Tail(posts)

RunParams ==
  /\ Take("params")
  /\ asked' = asked \cup {"params"}
  /\ UNCHANGED <<td, saver, auth, cb, user, left>>
  /\ UNCHANGED <<contactVars, diskVars, chosenVars, screenVars>>

AuthOf(m) == CASE m = "ready" -> "in" [] m = "closed" -> "out" [] OTHER -> m

(* Variant of RunState: the end of the session does not change auth.       *)
RunStateKeepsAuth(m) ==
  /\ Take(m)
  /\ auth' = IF m = "closed" THEN auth ELSE AuthOf(m)
  /\ onAuthStateChanged(AuthOf(m))
  /\ asked' = IF m = "ready" THEN asked \cup {"me"} ELSE asked
  /\ UNCHANGED <<td, saver, list, failed, cb, user, left>>
  /\ UNCHANGED diskVars

(* handleAuthorizationState: after the callback of the state "ready" the   *)
(* user is asked for.                                                      *)
RunState(m) ==
  /\ Take(m)
  /\ auth' = AuthOf(m)
  /\ onAuthStateChanged(AuthOf(m))
  /\ asked' = IF m = "ready" THEN asked \cup {"me"} ELSE asked
  /\ UNCHANGED <<td, saver, list, failed, cb, user, left>>
  /\ UNCHANGED diskVars

RunLoggedOut ==
  /\ Take("loggedOut")
  /\ onAuthStateChanged(auth)
  /\ UNCHANGED <<tdVars, list, failed, auth, cb, user, diskVars, left>>

(* updateCurrentUser up to saveUserData, on either thread.                 *)
updateCurrentUser(thread, queue) ==
  /\ user' = TRUE
  /\ posts' = Append(queue, "userData")
  /\ saver' = saver \cup {thread}

RunUpdateUser ==
  /\ MainFree /\ posts # <<>> /\ Head(posts) = "updateUser"
  /\ IF user
     THEN updateCurrentUser("main", Tail(posts))
     ELSE posts' = Tail(posts) /\ UNCHANGED <<user, saver>>
  /\ UNCHANGED <<td, asked, auth, cb, left>>
  /\ UNCHANGED <<contactVars, diskVars, chosenVars, screenVars>>

saveUserData(thread) ==
  /\ thread \in saver
  /\ saver' = saver \ {thread}
  /\ stored' = TRUE
  /\ UNCHANGED <<td, asked, posts, auth, cb, user, saved, session, left>>
  /\ UNCHANGED <<contactVars, chosenVars, screenVars>>

RunUserData ==
  /\ Take("userData")
  /\ IF cb = "dialog" THEN onAuthSuccess ELSE UNCHANGED <<req, screenVars>>
  /\ UNCHANGED <<tdVars, list, failed, auth, cb, user, left>>
  /\ UNCHANGED <<diskVars, chosenVars>>

RunContacts ==
  /\ Take("contacts")
  /\ IF cb = "activity" THEN onContactsReceived(list) ELSE UNCHANGED chosenVars
  /\ UNCHANGED <<tdVars, contactVars, auth, cb, user, left>>
  /\ UNCHANGED <<diskVars, screenVars>>

RunError ==
  /\ Take("error")
  /\ IF cb = "dialog" THEN screen' = "error" /\ ticks' = NoTicks
                      ELSE UNCHANGED screenVars
  /\ UNCHANGED <<tdVars, contactVars, auth, cb, user, left>>
  /\ UNCHANGED <<diskVars, chosenVars>>
-----------------------------------------------------------------------------
(* TDLib's thread: answers, one at a time and in any order, and updates.   *)

TdFree == "td" \notin saver /\ Len(posts) < MaxPosts

SetTd(st) == td' = st /\ session' = st /\ Post(st)

Refuse == Post("error") /\ UNCHANGED <<td, session>>

(* A login half done may have expired; a logout is gone on with, which the *)
(* helper is not told of until it has ended.                               *)
AnswerParams ==
  /\ TdFree /\ "params" \in asked
  /\ asked' = asked \ {"params"}
  /\ \/ /\ td = "params"
        /\ \E st \in Resumed :
             /\ \/ st = session
                \/ st = "phone" /\ session \in {"code", "password"}
             /\ IF st = "closing" THEN td' = st /\ UNCHANGED <<session, posts>>
                                  ELSE SetTd(st)
     \/ Refuse
  /\ UNCHANGED <<saver, auth, cb, user, stored, saved, left>>
  /\ UNCHANGED <<contactVars, chosenVars, screenVars>>

(* A phone number, a code or a password: the next state, or an error.  A   *)
(* new number is taken in every state of a login.                          *)
AnswerLogin(q) ==
  /\ TdFree /\ q \in asked
  /\ asked' = asked \ {q}
  /\ \/ /\ q = "phone" /\ td \in {"phone", "code", "password"}
        /\ SetTd("code")
     \/ /\ q = "code" /\ td = "code"
        /\ SetTd("password")
     \/ /\ q # "phone" /\ td = q
        /\ SetTd("ready")
     \/ Refuse
  /\ UNCHANGED <<saver, auth, cb, user, stored, saved, left>>
  /\ UNCHANGED <<contactVars, chosenVars, screenVars>>

AnswerMe ==
  /\ TdFree /\ "me" \in asked
  /\ asked' = asked \ {"me"}
  /\ \/ td = "ready" /\ updateCurrentUser("td", posts)
     \/ UNCHANGED <<user, posts, saver>>
  /\ UNCHANGED <<td, auth, cb, left>>
  /\ UNCHANGED <<contactVars, diskVars, chosenVars, screenVars>>

(* The profile was changed on another device.  Updates sent before the     *)
(* helper knows the user, which it drops, are left out.                    *)
UserChanges ==
  /\ TdFree /\ td = "ready" /\ user
  /\ "updateUser" \notin {posts[i] : i \in DOMAIN posts}
  /\ Post("updateUser")
  /\ UNCHANGED <<tdVars, auth, cb, user, left>>
  /\ UNCHANGED <<contactVars, diskVars, chosenVars, screenVars>>

(* Variant of AnswerLogout: the data are cleared, the state is left as it  *)
(* is until TDLib has closed.                                              *)
AnswerLogoutKeepsAuth ==
  /\ TdFree /\ "logout" \in asked
  /\ asked' = asked \ {"logout"}
  /\ \/ td = "ready" /\ td' = "closing" /\ session' = "closing"
     \/ UNCHANGED <<td, session>>
  /\ stored' = FALSE /\ user' = FALSE /\ list' = Empty /\ left' = TRUE
  /\ Post("loggedOut")
  /\ UNCHANGED <<saver, req, failed, auth, cb, saved, chosenVars, screenVars>>

(* The answer to logout clears the helper's data, whatever it says.        *)
AnswerLogout ==
  /\ TdFree /\ "logout" \in asked
  /\ asked' = asked \ {"logout"}
  /\ \/ td = "ready" /\ td' = "closing" /\ session' = "closing"
     \/ UNCHANGED <<td, session>>
  /\ stored' = FALSE
  /\ user' = FALSE
  /\ list' = Empty
  /\ auth' = "out"
  /\ left' = TRUE
  /\ Post("loggedOut")
  /\ UNCHANGED <<saver, req, failed, cb, saved, chosenVars, screenVars>>

(* The session is ended from another device.                               *)
SessionEnds ==
  /\ TdFree /\ td = "ready"
  /\ td' = "closing"
  /\ session' = "closing"
  /\ UNCHANGED <<asked, saver, posts, auth, cb, user, stored, saved, left>>
  /\ UNCHANGED <<contactVars, chosenVars, screenVars>>

(* The database is destroyed with the client.                              *)
TdCloses ==
  /\ TdFree /\ td = "closing"
  /\ td' = "closed" /\ session' = "phone" /\ Post("closed")
  /\ UNCHANGED <<asked, saver, auth, cb, user, stored, saved, left>>
  /\ UNCHANGED <<contactVars, chosenVars, screenVars>>

(* Variant of Remaining: the callback is posted one user too early.        *)
RemainingOffByOne(r, rest) ==
  IF Cardinality(rest) <= 1
  THEN req' = [req EXCEPT ![r] = Idle] /\ Post("contacts")
  ELSE req' = [req EXCEPT ![r] = [at |-> "users", left |-> rest]]
       /\ UNCHANGED posts

(* The users of request r still to be answered are rest: with the last one *)
(* the callback is posted.                                                 *)
Remaining(r, rest) ==
  IF rest = {}
  THEN req' = [req EXCEPT ![r] = Idle] /\ Post("contacts")
  ELSE req' = [req EXCEPT ![r] = [at |-> "users", left |-> rest]]
       /\ UNCHANGED posts

(* Variant of AnswerContacts: the list is not cleared.                     *)
AnswerContactsAdds(r) ==
  /\ TdFree /\ req[r].at = "asked" /\ td = "ready"
  /\ list' = [list EXCEPT ![Self] = IF user THEN @ + 1 ELSE @]
  /\ Remaining(r, Contact)
  /\ UNCHANGED failed
  /\ UNCHANGED <<tdVars, auth, cb, user, left>>
  /\ UNCHANGED <<diskVars, chosenVars, screenVars>>

(* parseContacts starts the list anew, with the user first if known.       *)
AnswerContacts(r) ==
  /\ TdFree /\ req[r].at = "asked"
  /\ \/ /\ td = "ready"
        /\ list' = [Empty EXCEPT ![Self] = IF user THEN 1 ELSE 0]
        /\ Remaining(r, Contact)
        /\ UNCHANGED failed
     \/ /\ failed' = TRUE
        /\ req' = [req EXCEPT ![r] = Idle]
        /\ Post("error")
        /\ UNCHANGED list
  /\ UNCHANGED <<tdVars, auth, cb, user, left>>
  /\ UNCHANGED <<diskVars, chosenVars, screenVars>>

AnswerUser(r, c) ==
  /\ TdFree /\ c \in req[r].left
  /\ \/ /\ td = "ready"
        /\ list' = [list EXCEPT ![c] = @ + 1]
        /\ UNCHANGED failed
     \/ /\ failed' = TRUE
        /\ UNCHANGED list
  /\ Remaining(r, req[r].left \ {c})
  /\ UNCHANGED <<tdVars, auth, cb, user, left>>
  /\ UNCHANGED <<diskVars, chosenVars, screenVars>>

-----------------------------------------------------------------------------
(* The user, in the dialog on top.  He waits for TDLib's answer to what he *)
(* has entered before his next tap.                                        *)

LoginQueries == {"phone", "code", "password"}

OnScreen(s) ==
  MainFree /\ cb # "none" /\ screen = s /\ asked \cap LoginQueries = {}

Show(s) == screen' = s /\ ticks' = NoTicks

uiConstant == <<td, saver, posts, list, failed, auth, user, session, left>>

OpenSettings ==
  /\ OnScreen("none")
  /\ Show(Settings)
  /\ UNCHANGED <<uiConstant, asked, req, cb, stored, saved, chosenVars>>

(* "Cancel", or "Back" of the code dialog.  The contacts dialog leaves the *)
(* selection as the ticks have made it.                                    *)
Cancel ==
  /\ screen # "none" /\ OnScreen(screen)
  /\ Show(CASE screen = "code" -> "phone"
            [] screen \in {"phone", "password"} -> "error"
            [] OTHER -> "none")
  /\ UNCHANGED <<uiConstant, asked, req, cb, stored, saved, chosenVars>>

(* From the settings, as a retry, or at a start without a stored user.     *)
Login ==
  /\ OnScreen("out") \/ OnScreen("error") \/ (OnScreen("none") /\ ~stored)
  /\ startTelegramAuth
  /\ UNCHANGED <<uiConstant, asked, cb, stored, saved, chosenVars>>

EnterPhone ==
  /\ OnScreen("phone")
  /\ \/ asked' = asked \cup {"phone"} /\ Show("code")
     \/ Show("error") /\ UNCHANGED asked
  /\ UNCHANGED <<uiConstant, req, cb, stored, saved, chosenVars>>

(* The code is sent and init called with the dialog's callback.            *)
EnterCode ==
  /\ OnScreen("code")
  /\ \/ /\ asked' = asked \cup {"code"}
        /\ cb' = "dialog"
        /\ IF auth = "in" /\ user THEN onAuthSuccess
                                  ELSE Show("none") /\ UNCHANGED req
     \/ Show("error") /\ UNCHANGED <<asked, cb, req>>
  /\ UNCHANGED <<uiConstant, stored, saved, chosenVars>>

EnterPassword ==
  /\ OnScreen("password")
  /\ \/ asked' = asked \cup {"password"} /\ Show("none")
     \/ Show("error") /\ UNCHANGED asked
  /\ UNCHANGED <<uiConstant, req, cb, stored, saved, chosenVars>>

LogOut ==
  /\ OnScreen("in")
  /\ asked' = asked \cup {"logout"}
  /\ ForgetContacts
  /\ stored' = FALSE
  /\ saved' = {}
  /\ Show("none")
  /\ UNCHANGED <<uiConstant, req, cb>>

(* The contacts are loaded when there are none, else shown.                *)
ShowContacts ==
  /\ OnScreen("in")
  /\ IF telegram = Empty
     THEN loadTelegramContacts
     ELSE /\ screen' = "contacts"
          /\ ticks' = [shown  |-> Members(telegram),
                       ticked |-> Members(telegram) \cap Members(selected)]
          /\ UNCHANGED req
  /\ UNCHANGED <<uiConstant, asked, cb, stored, saved, chosenVars>>

(* selectedContacts with exactly T selected of the people S.               *)
Selecting(S, T) ==
  [p \in Person |-> IF p \in T THEN IF selected[p] = 0 THEN 1 ELSE selected[p]
                    ELSE IF p \in S THEN 0 ELSE selected[p]]

Tick(p) ==
  /\ OnScreen("contacts") /\ p \in ticks.shown
  /\ LET on == p \notin ticks.ticked IN
     /\ ticks' = [ticks EXCEPT !.ticked = IF on THEN @ \cup {p} ELSE @ \ {p}]
     /\ selected' = Selecting({p}, IF on THEN {p} ELSE {})
  /\ edited' = TRUE
  /\ UNCHANGED <<uiConstant, asked, req, cb, stored, saved, telegram, screen>>

(* updateContactsList: the rows shown are selected as ticked, and the new  *)
(* rows ticked as selected.                                                *)
Search(S) ==
  /\ OnScreen("contacts") /\ S \subseteq Members(telegram)
  /\ selected' = Selecting(ticks.shown, ticks.ticked)
  /\ ticks' = [shown |-> S, ticked |-> S \cap Members(selected')]
  /\ edited' = TRUE
  /\ UNCHANGED <<uiConstant, asked, req, cb, stored, saved, telegram, screen>>

SaveContacts ==
  /\ OnScreen("contacts")
  /\ saved' = Members(selected)
  /\ edited' = FALSE
  /\ Show(Settings)
  /\ UNCHANGED <<uiConstant, asked, req, cb, stored, telegram, selected>>

-----------------------------------------------------------------------------
Main ==
  \/ RunParams \/ RunLoggedOut \/ RunUpdateUser \/ RunUserData \/ RunContacts
  \/ RunError \/ saveUserData("main")
  \/ \E m \in StateNews : RunState(m)

Answers ==
  \/ AnswerParams \/ AnswerMe \/ AnswerLogout \/ TdCloses \/ saveUserData("td")
  \/ \E q \in LoginQueries : AnswerLogin(q)
  \/ \E r \in Request : AnswerContacts(r) \/ \E c \in Contact : AnswerUser(r, c)

User ==
  \/ OpenSettings \/ Cancel \/ Login \/ EnterPhone \/ EnterCode
  \/ EnterPassword \/ LogOut \/ ShowContacts \/ SaveContacts
  \/ \E p \in Pickable : Tick(p)
  \/ \E S \in SUBSET Person : Search(S)

Next ==
  \/ Main \/ Answers \/ User
  \/ CreateActivity \/ Kill \/ UserChanges \/ SessionEnds

Spec == Init /\ [][Next]_vars

(* The looper runs what is posted and TDLib answers every query.           *)
Fairness == WF_vars(Main) /\ WF_vars(Answers)

LiveSpec == Spec /\ Fairness

-----------------------------------------------------------------------------
(* No update of TDLib's state waits in the queue s of the main looper.     *)
NoNews(s) == \A i \in 1 .. Len(s) : s[i] \notin StateNews

(* The state the helper tests before it sends anything follows TDLib's:    *)
(* once the posted updates have run it is TDLib's state, or "out" after    *)
(* the user has logged out.                                                *)
AuthFollowsTd ==
  NoNews(posts) =>
    \/ auth = AuthOf(td)
    \/ auth = "out" /\ td \in {"off", "params", "closing"}
    \/ auth = "in" /\ td = "closing"
    \/ auth = "out" /\ left

(* After the user has logged out nothing is sent in his name any more in   *)
(* this process, although a late answer to GetMe or an update of the user  *)
(* on the other thread may store his id again.                             *)
LoggedOutStays == left => ~IsAuthenticated

(* When the requests for the contacts have come to rest, the activity has  *)
(* all contacts or none: requests that overlap, and fill one list, and an  *)
(* activity created between, never leave a part of them (unless a query    *)
(* failed, or the answers went to the code dialog).                        *)
AtRest ==
  /\ td = "ready" /\ auth = "in" /\ cb = "activity" /\ ~failed
  /\ \A r \in Request : req[r] = Idle
  /\ "contacts" \notin {posts[i] : i \in DOMAIN posts}

AllContacts ==
  AtRest /\ telegram # Empty => Contact \subseteq Members(telegram)

(* And the contacts selected are those the user saved, unless he has       *)
(* edited the selection since: a segment goes to whom he chose, after a    *)
(* restart and after an activity created again.                            *)
SelectionRestored ==
  AtRest /\ telegram # Empty /\ ~edited =>
    Members(selected) = saved \cap Members(telegram)

(* Violated: a request for the contacts that TDLib answers brings them to  *)
(* the activity, also after the login dialog has called init again.        *)
ContactsArrive ==
  \A r \in Request :
    req[r].at = "users" ~>
      (Contact \subseteq Members(telegram) \/ td # "ready" \/ left \/ failed)
=============================================================================
