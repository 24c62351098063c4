# SOSTaxi: a formal model

SOSTaxi is an Android application for taxi drivers: a tap on a Quick Settings
tile or a Bluetooth button starts a session that records the cabin camera, cuts
the recording into segments, and sends each segment and the car's position to a
Telegram group, to chosen contacts, and to the phone's gallery.  This directory
holds TLA+ modules of its Kotlin code (`src/app/src/main/java/com/example/sostaxi/`)
and of the part of the vendored TDLib (`src/td-master/`) that its login rests on,
the TLC configurations that check them and TLAPS proofs about them.

## Inventory

| Part | State | Operations | Hard behaviour |
|---|---|---|---|
| Session control, `MainActivity` | static `isActive`; per activity: surface, tile flags, work mode, pending auto-start, one-hour job | `start`, `startAfterAccessCheck`, `stop`, `handleQuickTileIntent`, `handleTileToggle`, `onDestroy` | every start is asynchronous (permission, surface, network), every stop leaves delayed work; activities overlap |
| Quick Settings tiles | a preference per tile | `onClick` | the tile trusts its preference, the activity its own flags |
| BLE button (`BleButtonManager`, `BluetoothButtonService`, `BluetoothReceiver`) | GATT connections, attempts, posted reconnections, the flag that the button is there | start, stop, connect again | broadcasts and callbacks in any order, a stop that leaves a reconnection posted |
| Other button front ends (media session, accessibility) | volumes, times of presses | recognise a press, start or stop | debouncing by the clock |
| Recorder and segment delivery | files, current file, finalizer flag, upload coroutines | `startRecord`, `sendVideo`, `sendVideoNow`, `finalizeAndSendLastSegment` | recorder, uploads and finalizer share files and fields without a lock |
| Group and contact retention | counters, message ids | delete message n-1, upload n | failures between the two, counters shared by parallel uploads |
| Gallery | the files of the album, the storage limit | `copyVideoToGallery`, `enforceStorageLimit*` | check then act, deletes that fail |
| Live location | message ids of the group and of each contact | send or edit every minute, stop | the stop races the first send, `onDestroy` cancels it |
| RTMP proxy | server socket, scope, relays | `startProxy`, `stopProxy` | restart, port in use, relays whose other end is silent |
| Telegram client | authorisation state, callback, current user, contact list, selection | TDLib's updates and answers, login dialogs, logout, contacts | TDLib's thread against the main thread, requests that overlap, process death |
| TDLib's key-value store | map, events in transit, file and its replacement | `set`, `erase`, `force_sync`, `flush`, `do_reindex`, `init`, `destroy` | numbered under a lock and sent outside it; crashes between any two steps |
| Settings and dialogs, language, TLS | preferences | user interface | none of its own |

### How the parts interact

- **Tiles and buttons → session control.** A tile starts or signals the activity
  by an intent when `isActive` is false and by a broadcast when it is true; a
  button sends an intent.  Both read the static `isActive`; neither waits.
- **Session control → recorder, location, proxy.** `startAfterAccessCheck` sets
  `isActive` and launches the recorder loop (or the stream) and the location
  loop; both look at `isActive` between two rounds, and that is what stops them.
  `stop()` launches the finalizer and the end of the live location and clears
  the tile flags.
- **Recorder → uploads → chats.** Each finished segment is given to a coroutine
  of its own (`sendVideo`), which reads the tile flags when it gets to each
  destination: gallery, group, contacts; then it deletes the file.  The
  retention (first and newest segment stay in the chat) is a part of the upload.
- **Everything that sends → Telegram client.** `isAuthenticated` guards every
  call; the client's callback brings contacts and authorisation states to the
  activity.
- **Telegram client → TDLib → its store.** TDLib keeps the state of the login and
  the session in its key-value store, and a new process comes up in the state it
  finds there.
- **Gallery.** Each upload copies its segment to the album, which first makes
  room there; two uploads do so at a time.
- **Sessions → RTMP proxy.** A stream starts the proxy; the end of every session,
  also one of segments, stops it.
- **Android → everything.** `onDestroy` stops the session and cancels the
  activity's coroutine scope; the process can be killed at any time.

### What makes each part correct

| Part | Correct means | Where |
|---|---|---|
| Session control | an active session has an activity, an end in sight, and a recorder; a stream only in a session; a session and everything it started end | `Session` |
| Segment delivery | every segment reaches each destination that is on or fails to, once; nothing else is left on disk; no finalizer keeps its flag | `SegmentPipeline` |
| Retention | the segment a series numbers first is never deleted, unless its counting met another's; an id on record is that of the right message | `ChatRetention` |
| Live location | one live message per chat, lost in no way but the named ones, ended by a stop | `LiveLocation` |
| Telegram client | the guard follows TDLib; a logout is final; contacts and selection complete | `TelegramAuth` |
| Gallery | the album within its limit but for copies that overlap, the newest kept, no file deleted in vain | `GalleryLimit` |
| RTMP proxy | a camera that connects is served; a stop ends every relay | `RtmpProxy` |
| BLE button | one listener; a button near is heard, one that is gone given up | `BleButton` |
| TDLib's store | a map that a crash takes back to an earlier write, never before one a caller was told is saved | `Binlog` implements `DurableMap` |

## The plan

1. `Session` — done, with proofs (`SessionProofs`).
2. `SegmentPipeline` — done, with proofs (`SegmentPipelineProofs`).
3. `ChatRetention` — done, with proofs (`ChatRetentionProofs`).
4. `LiveLocation` — done, with proofs (`LiveLocationProofs`).
5. `TelegramAuth` — done, with proofs (`TelegramAuthProofs`).
6. `RtmpProxy` — done; to prove: `TypeOK`.
7. `GalleryLimit` — done, with proofs (`GalleryLimitProofs`).
8. `BleButton` — done, with proofs (`BleButtonProofs`).
9. `DurableMap` and `Binlog` — done, with the proofs of what the abstract map
   promises, that `Binlog` implements it, and of what it holds (`BinlogProofs`).
10. An abstract session (idle, starting, running, closing) that `Session`
   implements under a refinement mapping, and an abstract outbox (a segment is
   recorded, handed over, gone) that `SegmentPipeline` implements.

The steps need each other little: `SegmentPipeline` and
`LiveLocation` contain the part of `Session` that drives them (start, stop,
toggle, destruction of an activity), reduced to what they can tell apart, and
`ChatRetention` is one stage of `SegmentPipeline` in detail.

## The modules and the code

Line numbers are in `PROJECT.json` under `map`; all code named below is in
`MainActivity.kt` unless another file is given.  In every module a variable has
the name of the field it models, an action that of its handler where it has one,
and the handler of a main-thread callback is one step, because nothing else runs
on the main thread meanwhile.  What a handler launches, posts or sends is a
later step.  History variables, read by no action's guard, are listed last in a
module and marked.  A definition called a "variant" is a plausible wrong version
of the definition after it; it takes no part in the specification and shows that
the property which catches it can fail.

**`Session`** (instances `MCSession`).  The process (`isActive`, preferences,
intents in transit, pending tile resets) and a slot for each activity object
that may exist.  An activity is `live`, `finishing` or `absent`: Android may
create a successor before it destroys a finished one, and then the successor's
`isActive` is the same static field.  A start goes through up to three waits,
each a counter of pending work: for the surface (`pending`), for the 500 ms
runnable (`posted`), for a permission (`asked`) and for `getChatMember`
(`checks`).  `stop`, `stop_and_close`, `handleTileToggle`, `onDestroy` and the
recreated `onCreate` are actions or parts of them; recorder loops are counted by
where they are.

**`SegmentPipeline`**.  Files are numbers in the order of creation.  Per session
a recorder loop and a finalizer, per file its state on disk, per upload a job
with its stage.  Two facts about time are guards, because the code's delays
decide them: a coroutine that was launched has begun before the user's next tap
(`Dispatched`), and a finalizer that was there when a segment began has chosen
its file when the segment ends, since it takes less than 6 s and a segment at
least 10 s (`Choosing`).  A finalizer polls for up to 5 s; what counts is which
file it keeps.  A finalizer that a restart meets is modelled with all it does: it
looks for the newest file whoever writes it, reads the tiles of its own activity
and deletes what it sent.  `Deliver` is the hand-over of a file to one
destination, which may fail: the network, for the group and the contacts; the
account, for the contacts (nobody logged in, none selected, the private chat
refused); the copy, for the gallery.  The failure is caught and logged, the
upload goes on and deletes the file.  Contacts are served one after another and
are one destination.  The history variables record what the exceptions of the
properties need: hand-overs that failed (`failed`), the file a finalizer took
(`took`), finalizers during whose work a tile was switched on (`again`),
activities that started a session before the last was done (`hurried`), files
whose upload or recording a destruction cut short (`dropped`).

**`ChatRetention`**.  One chat.  `sentSegmentCount++` is a read, a write and a
second read, three steps of each upload, and uploads run in parallel.  The group
and a contact differ only in that the contact's calls are queued with TDLib, so
that a contact's behaviours are among those modelled.  `first` has the upload that
a series numbers first, whatever number it gets: two overlapping increments may
give no upload the number 1.  `crossed` has the series in which that can be,
because another upload was counting until the first one had its number.

**`LiveLocation`**.  One activity, the group and one contact.  A sender goes
through location, group and contact; a stopper through location, group and
contacts.  A call may fail, and Telegram may refuse to end a message, which the
code does not notice; a logout (`LogOut`) may come at any time, and a stop then
forgets the contact's message without ending it (`StopAtContact`).  Whatever is
left live so is `astray`, the history variable that the properties refer to.
`onDestroy` is two steps, because the coroutine that `stop()`
launched may or may not get a thread before the scope is cancelled.  A message's
number is used again once it is neither live nor remembered, which keeps the
model finite without bounding how many are sent.

**`TelegramAuth`**.  Three actors: TDLib (`td`, the queries `asked`, requests
for contacts `req`), the main thread (a queue `posts` of runnables, the dialog
on the screen) and the disk.  Updates are posted to the main looper, answers are
handled on TDLib's thread, and both write the same fields; `updateCurrentUser`
stores the user in a step of its own (`saver`) because it posts a callback
first.  `parseContacts` asks for every user separately and TDLib answers in any
order.  TDLib's side follows `AuthManager.cpp`: each state of a login is stored
before it is announced (`SetTd`), so that a new client resumes it (`session`),
unless it has expired; a logout that was begun is gone on with, and the helper,
which ignores the states between, hears of it only when TDLib has closed.

**`RtmpProxy`**.  The k-th stream of the process has the k-th server socket,
accept loop, camera connection and pair of relays.  `startProxy` and `stopProxy`
run on the main thread; the loop, the handlers and the relays are coroutines of
`proxyScope`, a `val` that `stopProxy` cancels and nobody renews (`cancelled`).
The accept loop reads the field `serverSocket` anew in every round, in two steps
(`LoopLooks`, `LoopCalls`), because `accept` is called on what it holds then.
A relay whose end is silent is a relay that does not step.

**`GalleryLimit`**.  The album is a sequence of files with sizes, a copy goes
through query, deletions and writing, and its list and total are its own and
grow stale.  MediaStore hides files in writing, the directory of older Androids
shows them (`legacy`).  A deletion that fails leaves the list but not the total;
one of a file that the other copy has deleted frees nothing in the directory and
counts all the same in MediaStore (`Freed`).

**`BleButton`**.  One button, the broadcasts of its link (`acl`), and the
managers that successive starts of the service made, each with its connection,
callbacks and posted reconnection.  `connectGatt` gets no handler, so that
`onConnectionStateChange` runs on a binder thread and is a step for each thing it
does: the connection, the preference, the reconnection (`work` says which is
next).  `stop()`, on the main thread, may come between any two of them.
Connecting may throw and subscribing fail, and nothing tries again (`gaveUp`,
`deaf`).  A manager nobody refers to and nothing is
pending for is forgotten and its number used again, so that the service may be
restarted without end.

**`Binlog`** and **`DurableMap`**.  `BinlogKeyValue` (`Write`), the actor of
`ConcurrentBinlog` with `OrderedEventsProcessor` (`Deliver`, `Drain`, the timer),
the file of `Binlog` (`Flush`, `Synced`, the steps of `do_reindex`, `init`) and
the events that make up the map (`BinlogEventsProcessor`: `Added`, `Refused`).
A thread sends its event in a step of its own after it was numbered.  The actor
is in one of several turns, and a turn that takes several system calls is one
step for each.  A file is a sequence of events of which the first `synced` are on
the disk.  `Kill` ends the process between any two steps and may leave the event
being written torn; `PowerLoss` keeps of each file what is synced and as much of
what follows as has been written, the last event of it possibly torn.
`DurableMap` is what a user of the store relies on; `Binlog` maps its `writes`
to `history`, `durable` to the writes that the files would still give after the
worst crash now, and `promised` to itself.  `boot` gives the place in the history
from which the numbers of this life count.

## What the runs check

| Run | Shows | Instance |
|---|---|---|
| `session_overlap` | types; an active session has an activity that is not destroyed and an end that is scheduled | two activities that overlap, one tile |
| `session_buttons` | the camera never streams outside a session | a tile, the button in both modes, every event of the surroundings |
| `session_live` | an active session has a recorder loop, also one started while the loop of the last is there; every session ends | two tiles, two loops, fairness |
| `segments_overlap` | no segment twice, none let go undelivered in a session that goes on, none forgotten, each with its named exceptions | two sessions in one activity or two, a segment of each or two of one, the group, failing network and camera, short files, destruction |
| `segments_live` | finalizers give their flag back, segments of a running session reach the group | two sessions in one activity, the group, fairness |
| `chat_retention` | the segment numbered first in a series is never deleted unless its counting was crossed; ids belong to their numbers; without overlap and failure exactly first and newest stay | four uploads, two at a time, two series |
| `live_location` | one live message per chat, known by its id, ended by a stop | two sessions, two senders, a failure or refusal, a logout, destruction |
| `telegram_session` | the guard follows TDLib; a logout is final; contacts complete, selection restored | one contact and the user himself, two requests, process death |
| `rtmp_proxy` | until the first stop a camera that connects is served, also when starts overlap; a stop ends every relay | two streams, two ports, fairness |
| `gallery_limit` | how far the album exceeds its limit with one and with two copies; the newest are kept; nothing is deleted in vain | five files of two sizes, two limits, a failure or crash, both kinds of album |
| `ble_button` | only managers stopped with a reconnection posted or on its way listen beside the service's; a button that stays away is given up; a paired one that stays near is heard and the flag says so, unless its manager gave up or could not subscribe | three troubles, four managers at a time, two attempts, fairness |
| `binlog` | no file a crash leaves is refused; the map is what the writes make of it; the store implements `DurableMap`; every sync is done | two threads, three writes, two crashes, fairness |

### The bounds and why they are enough

- `Session`: `Instances` is two where the overlap of activities matters (a third
  would need a finished activity to survive two successors) and one elsewhere.
  `MaxMsgs`, `MaxChecks`, `MaxPosts` and `MaxLoops` bound what waits at one time
  of one kind, not how often it happens: sessions follow one another without
  end.  One is enough for a start to be overtaken by a stop, and for a second
  start to follow the first.  `session_live` has two loops, so that a session can
  start while the loop of the last one has not yet looked at `isActive`: an
  `auto_start` stops and starts within a second, and the old loop goes on for the
  new session.  The theorems hold for any bound.
- `SegmentPipeline`: two sessions of two segments together have a segment that is
  sent while the next is recorded, a stop during each, a finalizer that meets
  its own recorder and one that meets the next session's, in the same activity or
  in its successor, which every stop by a tile or a button brings 1.2 s later
  unless the user is faster.  A second activity also exists so that a destroyed
  one can be outlived by its uploads and its finalizer.  One destination is
  enough: an upload serves them one after another, and what a property says of
  one destination does not depend on another; that of the gallery differs by the
  copy only, the theorems are of all three, and the instance of one session with
  all three destinations and every failure was checked as well.  Without the reset of
  `isFinalizingLastSegment` in `startAfterAccessCheck` a segment would be lost
  (`segments_live`).
- `ChatRetention`: four uploads are the fewest in which a middle segment has
  been deleted and one more follows, two series the fewest in which an upload
  outlives its own, and two at a time enough for an increment to be lost; the
  theorems hold for any bound.
- `LiveLocation`: two senders are the fewest that can both create a message, two
  sessions the fewest in which a stop of the first meets the second.  One failure
  is an answer lost, a call refused or a stop that failed; the logout comes once,
  at any time.
- `TelegramAuth`: with the user's own entry, one contact already makes a list of
  which a part can arrive; `MaxPosts` bounds how far TDLib's thread runs ahead
  of the main looper.  The instance with two contacts and one request
  was checked as well.
- `RtmpProxy`: two starts are the fewest in which the second replaces the first
  one's socket, and in which a start follows a stop; two ports the fewest of
  which one may be busy.
- `GalleryLimit`: five files let the album be full, and two copies make room at
  the same time and write.  A segment may be larger than what another frees.
- `BleButton`: the code's five attempts are one, as only having some left or
  none matters; three troubles are, in any order, a loss of range, a restart by
  the user and a failure within range, to connect or to subscribe.  At most four managers are in use at once.
- `Binlog`: three writes by two threads have two that overtake each other, a
  rewrite and an erasure; the thresholds (16 KB, 50 KB, ten slots) are a few
  events, so that a flush, a reindex and a compaction happen among three; two
  crashes put one into the recovery from the other.

`CHECK_DEADLOCK FALSE` is in the configurations whose bounds bring the run to an
end (all files used, all sessions started).  `Session` and `TelegramAuth` are
checked for deadlock.

### Fairness

The main looper runs what was posted to it; coroutine dispatchers run what was
launched; delays elapse; HTTP calls have a timeout; Android delivers intents and
destroys what was finished; TDLib answers every query.  These are weak fairness
of the action or of the whole actor.  Nothing is assumed of the user, of the
surface, of permissions, or of events such as process death: an infinite
behaviour in which the user never taps again satisfies every fairness condition.
`Session`'s fairness is per activity and per kind of pending work, because each
is a queue or a job of its own.  `TelegramAuth` states it too, one condition for the looper and one for TDLib's
thread.  In `RtmpProxy` every loop, handler and relay is a coroutine of its own,
and a connection attempt ends; cameras and Telegram do nothing that they need
not.  In `BleButton` broadcasts, callbacks and runnables are delivered, a
connection attempt ends, and the system connects a paired button that is near;
range and the user are free.  In `Binlog` the actor goes on with its turn, its
timer fires and takes its turn, and what a thread sends arrives.

### Assumptions about the surroundings

- *SegmentPipeline*: the two guards on time above; a finalizer finds a file that
  the recorder has closed to be of constant size (the code tests 800 ms apart).
- *LiveLocation*: a blocking network call is waited out after the scope is
  cancelled, as `OkHttp`'s is; the test of an id and the call that follows are
  one step.
- *TelegramAuth*: one activity, that of the latest `onCreate`; the user waits
  for TDLib's answer to what he entered before he taps on; TDLib sends
  `UpdateUser` about the account only after `GetMe`.  In `updateCurrentUser` the
  test of the user and the assignment are one step, the save is another.
- *TelegramAuth*, TDLib's side: of the ways to log in only that of the
  application (phone number, code, password); a session is lost only when it is
  open.
- *GalleryLimit*: every file of the album is the application's, and a query or
  deletion is one step.
- *BleButton*: one device; a link stays up while a connection uses it.
- *Binlog*: what is appended to a file reaches the disk in its order, and so do
  creating, unlinking and renaming files,
  without which `do_reindex`, which syncs no directory and then drops
  `need_sync_` (`Binlog.cpp:674`), could lose promised events; a torn end is
  recognised (each event carries a CRC); a sync promises what its caller has
  written, and a store that is opened owes no sync of what it finds.
  TDLib's store is encrypted with a default key, so that a file without one, or
  with a torn end, is replaced when it is opened (`Unusable`); what encryption
  does to the bytes is left out.  A write while `init` replaces the file is as
  one after it.
- A second `startRecord` on a camera that records is taken to throw.
- The intent by which the one-hour job stops the session is delivered, although
  Android may hold back activities started from the background.

## What does not hold

The following formulas are stated in their modules and refuted by TLC; they have
no run of their own.

- `NoSegmentWithTilesOff` (`Session`).  A tile is switched on; the start it
  causes waits for the surface, the 500 ms runnable or the membership check.  The
  tile is switched off.  `handleTileToggle` finds `isActive` false and has
  nothing to stop; the start goes on, and the session records with every tile
  off, although the comment there says that recording stops when all are off.
- `OneRecorder` (`Session`, with two tiles, `MaxChecks = 2` and `MaxLoops = 2`):
  two taps before the membership check is answered both pass the test of
  `isActive`, and two recorder loops share one camera.
- `LastSegmentSent` (`SegmentPipeline`).  `stop()` launches the finalizer and then
  clears the tile flags; the finalizer reads them a second later, sends the last
  segment to nobody and deletes it.  `AUTO_CLOSE_APP_FIX.md` promises
  «гарантированной отправкой последнего видео сегмента».
- `NothingOutlivesActivity` (`LiveLocation`).  `onDestroy` calls `stop()` before
  it cancels the scope, and the comment says this is so that `stopLiveLocation`
  can start; but the scope `stop()` launches it into is the one cancelled.
- `TileShares` (`LiveLocation`, with `Tiles = {"group", "gallery"}`): a session
  begun with the gallery tile alone has no location loop, and a group switched
  on later gets no location although a comment says the loop is running.
- `ContactsArrive` (`TelegramAuth`).  The code dialog calls `init` again with a
  callback of its own whose `onContactsReceived` is empty, and the answer to the
  `getContacts` after the login goes there.
- `RunningServes` (`RtmpProxy`): after the first stop, of whatever session, the
  scope is cancelled for the life of the process.  A later stream starts the
  proxy, the socket listens and the camera connects, but nobody accepts.

Seen while modelling, without a formula:

- `SegmentPipeline`, the exceptions that the three properties of run
  `segments_overlap` name:
  a segment is sent twice if a tile is switched on again while a finalizer works,
  since what keeps the finalizer's upload from being the second one is only that
  `stop()` has cleared the tiles; `FIX_DUPLICATE_LAST_SEGMENT.md` says that the
  check of the last file's name works «независимо от таймингов», but that name
  is known to finalizers only.  A finalizer takes the file that a session started
  within five seconds records, sends it where its own activity's tiles say and
  deletes it under the recorder.  A session started before recorder and finalizer
  of the last one are done can leave a segment on disk: its last segment settles
  with `isFinalizingLastSegment` still set, the loop leaves it to that finalizer,
  and that has chosen an older file.  A destruction drops uploads that have not
  begun.  A hand-over that fails is not repeated, and the file is deleted; a file
  whose gallery copy failed is kept on disk all the same, where nothing looks for
  it again (`kept`).
- `ChatRetention`: two increments that overlap, or one that a reset of the
  counter overtakes, give the first segment of a series another number than 1,
  and the next upload may delete it (the exception of `FirstStays`).  If the
  first segment's own upload fails, the series has no message that stays but the
  newest.
- `LiveLocation`: a stop after a logout, or after the session was ended from
  another device, forgets the contacts' live messages without ending them; an
  error answered to `stopMessageLiveLocation` is taken for success; a failed
  stop of the group's message drops the contacts' ids, too; and a stop does not
  see a message whose answer is still under way.  All these stay live for their
  day (`astray`).
- `TelegramAuth`: overlapping requests leave a contact in the list twice, who
  then gets each segment twice; after a logout no login succeeds until the
  process dies; "Saved messages" is missing when contacts are answered before
  `GetMe`; Cancel in the contacts dialog keeps the ticks.
- `RtmpProxy`: a client that was accepted and whose handler was cancelled before
  it began is never closed; the join of both relays contradicts the comment that
  either one ends the connection.
- `GalleryLimit`: a file that cannot be deleted counts in the total for ever, and
  the others are deleted for it at every copy.
- `BleButton`: for a button that is not paired, a broadcast of the disconnection
  that comes before the GATT callback closes the connection, and nobody connects
  again; a manager that has given up is not replaced by a start of the running
  service; an orphan listens beside the service's manager, so that one press
  counts twice, connects to a device chosen earlier, and lowers the flag when it
  gives up.  A stop between two steps of a callback leaves such an orphan, too,
  and a callback it overtook may raise the flag of a button nobody listens to
  (`overtaken`).  A manager whose discovery or subscription failed stays
  connected and deaf, and one whose `connectGatt` threw does nothing more.

These follow from the code and contradict no other text of the repository than
the ones named.

## What is proved

All theorems are for every value of the constants under the module's assumption
(`SessionAssumption`, `PipelineAssumption` and so on), which gives the constants
their types and no more, with these exceptions: `Request` of `TelegramAuth` is
not empty, `lazy_flush`'s threshold in `Binlog` is below `need_reindex`'s, as 16
KB is below 50 KB, and `TornAssumption` says that what an interrupted write left
is no event, which the CRC of an event tells.  `GalleryLimit` has finitely many
copies, sizes and limits, and no segment is larger than a limit: limits are
gigabytes, and a segment is of seconds.  `DurableMap` needs no assumption.

| Theorem | States |
|---|---|
| `SessionProofs!TypeCorrect` | `Spec => []TypeOK` |
| `SessionProofs!ActiveActivity` | `Spec => []ActiveHasActivity` |
| `SessionProofs!StopScheduled` | `Spec => []AutoStopPending` |
| `SessionProofs!SessionIsRecorded` | `Spec => []RecorderRuns`, with segment sessions only, a camera that can be prepared, and no permission request in a recreated activity |
| `SessionProofs!StreamInSession` | `Spec => []StreamNeedsSession`, with one activity object at a time |
| `SegmentPipelineProofs!PipelineTypes` | `Spec => []TypeOK` |
| `SegmentPipelineProofs!SentOnce` | `Spec => []NoDuplicates` |
| `SegmentPipelineProofs!SegmentsAreDelivered` | `Spec => EachSegmentSent` |
| `ChatRetentionProofs!RetentionTypes` | `Spec => []TypeOK` |
| `ChatRetentionProofs!RecordsMatch` | `Spec => []IdsMatchNumbers` |
| `ChatRetentionProofs!FirstSegmentStays` | `Spec => FirstStays` |
| `ChatRetentionProofs!FirstAndNewestStay` | `Spec => []FirstAndNewest` |
| `LiveLocationProofs!LocationTypes` | `Spec => []TypeOK` |
| `LiveLocationProofs!LocationsAreKnown` | `Spec => []NothingLost` |
| `LiveLocationProofs!StopEndsMessages` | `Spec => []StopEndsLocation` |
| `TelegramAuthProofs!ClientTypes` | `Spec => []TypeOK` |
| `TelegramAuthProofs!LoggedOut` | `Spec => []LoggedOutStays` |
| `TelegramAuthProofs!AuthFollows` | `Spec => []AuthFollowsTd` |
| `TelegramAuthProofs!ContactsAreComplete` | `Spec => []AllContacts` |
| `TelegramAuthProofs!SelectionIsRestored` | `Spec => []SelectionRestored` |
| `BleButtonProofs!ButtonTypes` | `Spec => []TypeOK` |
| `BleButtonProofs!OthersAreOrphans` | `Spec => []OnlyOrphansListen` |
| `GalleryLimitProofs!TypesAreKept` | `Spec => []TypeOK` |
| `GalleryLimitProofs!AloneStaysWithin` | `Spec => AloneWithinLimit` |
| `GalleryLimitProofs!NothingIsDeletedInVain` | `Spec => NothingDeletedInVain` |
| `GalleryLimitProofs!NewestStayWithinLimit` | `Spec => []NewestWithinLimit` |
| `BinlogProofs!PromisesAreKept` | `Store!Spec => [](Store!TypeOK /\ Store!PromisesHold)`, of any machine that implements `DurableMap` |
| `BinlogProofs!PromisedWritesStay` | `Store!Spec => Store!PromisedStay` |
| `BinlogProofs!BinlogTypes` | `Spec => []TypeOK` |
| `BinlogProofs!PromisesSurvive` | `Spec => []Store!PromisesHold` |
| `BinlogProofs!FilesAreTheMap` | `Spec => Implements`: `Binlog` implements `DurableMap` |
| `BinlogProofs!SavedWritesStay` | `Spec => Store!PromisedStay`: the two theorems before it, together |
| `BinlogProofs!NoEventRefused` | `Spec => []NeverFatal` |
| `BinlogProofs!MapIsOfTheWrites` | `Spec => []MapIsWrites` |

*Session.*  Neither safety property is inductive: a check that answers in a
destroyed activity would make the session active without one.  `SafeInv` adds
`WorkHasActivity`: checks, permission requests, runnables and broadcasts pending
belong to an activity that exists, which holds because destruction cancels or
drops them.  Then every step that sets `isActive` happens in an existing
activity and arms its job; every step that disarms a job leaves a stop intent in
transit or the session inactive.  `RecorderInv` adds `OnlySegments`: whatever
may become a start is one of segments.  Then the step that sets `isActive` also
adds a recorder, and a recorder leaves only when `isActive` is false.  The three
conditions of the theorem are necessary: a button set to streaming, a camera
that fails and a permission answered after recreation (when the mode is back at
its default, streaming) each give an active session without a recorder.
`StreamNeedsSession` is inductive for one activity object, the instance of run
`session_buttons`; with two, one activity's `stop` ends the session and only its
own stream, and the other's goes on.

*SegmentPipeline.*  All three are of any number of sessions, activities, files
and destinations, whatever fails.  The types are inductive once a file in a
loop's hands is a file (`HandFiles`).  `SessionInv` says who may be at work when:
a running session has no finalizer, and a finalizer's activity has its tiles off
unless one was switched on again during its work.  `HandInv` gives each loop the
file in its hands, and `JobInv` each file at most one upload by its recorder,
begun when the file has left the recorder's hands, and each finalizer one upload,
of the file it took.  Then `SentInv`: a file in a recorder's hands has been handed
to nobody, and a recorder's upload has handed nothing to the destinations it has
yet to come to, unless a finalizer took the file and had a tile switched on
again; with the tiles off its upload hands over nothing.  `DeliverInv` counts the
other way: of a file of the running session that no finalizer of an earlier one
took, the tiles it is wanted for are on, and while its upload lasts the file is
there and what the upload has passed has it or has failed to get it.  The lemmas
`LoopSteps`, `FinSteps`, `TileSteps`, `JobSteps` and so on sum up what any step
can do to a loop, a finalizer, the tiles or an upload, so that each part of the
invariant is shown over a few kinds of step and not over each action.

*ChatRetention.*  `FirstStays` is about a deletion, and the deletion uses an id
read two steps earlier.  `RetentionInv` says that ids on record belong to
uploads that are over and keep their number (`OnRecord`, `IdsMatchNumbers`), and
that a message chosen for deletion has a number of two or more
(`VictimsAreLater`), whatever has happened to counter and map since.
`FirstIsOne` is the other half: in a series that is not in `crossed` at most one
upload counts before the first number is taken, from a counter at 0, so that the
upload the series numbers first has number 1 and keeps it.  TLC checked it as an
invariant before it was proved; run
`chat_retention` checks the parts the properties name.  `CleanInv` follows an
upload of a series without overlap or failure through its stages: until it
deletes, the chat has the first and the newest, between deletion and upload only
the first.

*LiveLocation.*  A message that two senders could both create is counted astray
by the model when it is (`Create`), and so is one whose call failed, was refused or
lacked the account; the proof is that nothing else is lost.
`SessionInv` says that without a stopper every sender under way was overtaken by
a stop; `NameInv` that a held message has one name, in one chat; `AstrayInv` and
`OvertakenInv` what of that which senders hold is astray, of two senders in a
chat and of one that a stop overtook; `KnownInv`, `OneLive` and `EndedInv` then
give the properties.  Most steps are one of a few kinds (`ChatStep`), and each
part of the invariant is shown once for each kind.

*TelegramAuth.*  `LoggedOutStays` would be broken by a posted "ready" that runs
late.  `QueueInv` and `LogoutInv` say that there is at most one in the queue,
that it belongs to a session TDLib has opened, and that it has run before a
dialog that offers the logout is on the screen.  `FollowInv` says that the
latest state in the queue, or the state set when there is none, fits TDLib's.
`ReqTypes` bounds how often a contact is listed by the requests that still wait
for him.  `CompleteInv` says that a list is complete up to the users still asked
for, and the activity's is complete or about to be replaced; `SelectionInv` and
`SelfInv` relate the selection to the disk, to the list and to the user's own
entry.  The lemmas on queues say what `Append` and `Tail` keep of this.

*BleButton.*  Managers are many and events come in any order, but only a start
makes a manager the service's and only a stop of a manager with a reconnection
posted, or inside the callback that posts one, leaves an orphan.  `OrphansOnly`
says of everything that may make a manager listen (connection, callback still to
come or under way, posted reconnection) what `OnlyOrphansListen` says of
listening.

*GalleryLimit.*  All four properties of run `gallery_limit` are proved, for any
number of copies that overlap, any sizes and limits, and albums of any length.
First come lemmas about the operators: the sum of a set of files grows by the
size of the file that is added and depends on nothing but the sizes in the set
(`SumSteps`, `SumMore`, `SumSame`), and `Without` leaves the files that stay in
their order (`WithoutIs`).  Both are folds over data; what they yield is shown
from their definitions with a set of numbers for which the claim holds
(`NumbersInduction`), which the provers can use, in place of an operator, which
they cannot.  Then the invariants, which TLC checked before they were proved, in
all states with two copies and a failure, and with three copies to a depth of 22:

- `IInv`, the types: a file can still be made for each copy that has begun
  (`MadeInv`), two copies never write one file, and without a failure a file in
  writing has a copy that writes it (`AlbumInv`); in MediaStore a copy's total is
  at least the sum of what is left of its list, so that it never gets negative
  (`ListInv`).
- `AloneInv`, for `AloneWithinLimit`: a copy that has met no other is the only one
  under way, what is listed is what it has yet to look at or has failed to
  delete, and its total is exactly the sum of what is listed, unless the list
  could not be taken.
- `OrderInv`, for the order of deletion: of two files of which the older one
  comes later in the album or in a list, or outlives the newer one, one was in
  writing when a list was taken or another file completed (`Late`).  It speaks of
  the lists because a deletion follows a list that may be stale by then.
- `RoomInv`, for the bound on the album.  A copy's total and the album drift
  apart by what other copies write and delete meanwhile, and to bound the gap of
  each copy by a file for each of the others is not inductive: a second file of
  the same other copy would break it.  `older[c]` names the copies that had their
  list when `c` took its own and have not added their file yet: these have
  still to open a gap (`Debts`), and a copy that takes its list later knows of
  the files that are there.  Of any two copies one is among the other's `older`,
  and the older ones of the one are among those of the other.  `D` is the same
  of the album's bound: it has room for the file of each copy in `D`, and a copy
  outside has all of `D` among its older ones, so that, when it adds its file,
  what it has reckoned is the new bound.

`NothingIsDeletedInVain` needs `AloneInv` for a copy that has met no other, whose
total is the sum of what is listed; for those that overlap it needs `OrderInv`:
with no failure and no file late, a list is in the order of deletion, so that a
copy which deletes a file that is still there finds all that follow it there.

*DurableMap and Binlog.*  `PromisesHold` is inductive with the types: a crash
cuts the writes at `durable` or later.  The refinement rests on `IInv`, which TLC
checked on the instance of run `binlog` before it was proved.  Its parts:

- numbers (`NumberInv`, `WaitingInv`, `SyncInv`): each event that was not taken is
  with its thread or came early, once; `Taken`, the place in the history of the
  newest event that was taken, bounds every promise that a sync is going to
  fulfil, above all one that `immediate` held back until earlier events arrived;
- files (`MainInv`, `FileInv`, `NewInv`): the entries of a file are writes in
  their places, what is synced is whole, main file and buffer together reach
  exactly to `Taken`, and the new file, from the barrier on, holds all the slots
  hold and is on the disk before the old one is unlinked;
- debts (`OweInv`): what a file holds beyond what is synced, when no sync is due
  (`need_sync_` is not set), is what was found when the store was opened, and
  nobody who runs waits for it.  This is what makes dropping `need_sync_` in
  `do_reindex` and skipping the sync in `SyncEnds` right;
- the end (`OffInv`): the history is what the file that is opened next holds.

Each step is then one of the map's: a write; `SyncEnds`, `UnlinkOld` and
`CloseEnds` save; `Kill` and `PowerLoss` are crashes; `UnlinkMain` destroys;
everything else, `init` and the rest of `do_reindex` included, changes nothing
that the map has.  What a recursive function yields for a sequence of any length
(`Live`, `Replayed`) is shown by the least counterexample: `LeastNatural` finds
the first length for which a claim fails, and the steps before it give the
contradiction (`LiveSteps`, `ReplayedSteps`).

`IInv` counts writes and does not read them.  `ContentInv`, the second half of
`BinlogProofs`, says which they are; neither `NeverFatal` nor `MapIsWrites` is
inductive without it, since a file is read only after a crash.  Its parts:

- `SlotsInv`: the slots the processor has built show one map, each live key with
  the event that last rewrote it, in the order of their numbers;
- `PathInv`: from that map a path of maps leads to the newest one, a step for
  each event that was given a number and not yet taken (waiting in the
  processor's queue or with its thread).  Each event changes the map before it
  as `set` and `erase` may: a rewrite names the number its key has, a new event
  a number beyond all.  So an event that arrives out of order is held back, not
  refused, and the last map of the path is `map`;
- `StoredInv`: what file and buffer log (`RecordsAll`) replays to the map of the
  slots, and each first part of it that keeps the snapshot, which is what a crash
  may leave, to what the writes up to its place in the history make of each key;
  of the new file of `do_reindex` the same, from the barrier on.

The next start reads the readable part of `Kept`.  It refuses no event, because
each fits the map that those before it make (`Fits`), and `MapIsWrites` holds
because the last map of the path has each key's newest write.

Only model-checked: `RtmpProxy`, all of it; but for its types, what its run checks
is liveness.  `NothingForgotten`: it rests on the order of the code's delays and
on the history of a restart, which TLC explores with two sessions.  Liveness (`SessionEnds`, `FinalizerReleases`,
`SegmentReachesGroup`, `FirstStartsServe`, `StopEndsRelays`, `RestsWhenAway`,
`ListensWhenNear`, `SyncsEnd`) stays so: it is beyond the prover.

## What is not modelled

- Recognising a button press (`MediaButtonReceiver`, `BluetoothButtonManager`,
  `VolumeButtonAccessibilityService`): it depends on key codes and on the real
  time between events only, so that with time abstracted away any event may be a
  press; a recognised press is `PressButton` of `Session`.  What remains of the
  accessibility service is its reading of the flag that `BleButton` keeps.
- TDLib's own reading of a file after it was handed over.  The two seconds the code
  waits before it deletes the file are a hazard without a property.
- The in-app start/stop button and the mode spinner: the one is hidden, the
  other commented out.
- `StreamingTileService`, `VideoSegmentsTileService` (not in the manifest) and
  `VolumeKeyListener` (no longer created).
- Settings widgets other than the Telegram section, language, TLS trust: they
  write preferences that a session reads once.
- `TelegramAuthHelper.destroy`, which nobody calls.
- TDLib apart from its store and the states of its authorisation: a vendored
  library of some 600,000 lines, SQLite's amalgamation among them, of which the
  application uses a dozen calls.  What the calls do is modelled where they are
  used.  Of the store: encryption and `change_key`, `erase_batch`, `lazy_sync`
  and events written in parts.
