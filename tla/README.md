# Verification of IOS_FinalProject

The repository holds two iOS programs that share nothing but the team:

* **Bomb-Man** (`src/Game/Bomb-Man`), a two-player, turn-based artillery game in
  SpriteKit: about 2 200 lines of Swift, one thread, one frame after another.
* **JMatch** (`src/APP/JMatch/JMatch`), a dating app on Firebase: about 3 200
  lines of Swift in view controllers whose callbacks answer in any order.
  `src/APP/JMatch/Pods` is vendored.  Of its 1 291 files in C, C++, Objective-C and
  C headers only the database client is modelled, because all of JMatch stands on
  what it promises: that writes arrive, in order, and that observers see them.

There are no tests; `src/README.md` and `src/APP/Readme.md` say how to build.
So this project states what the code has to guarantee, checks it with TLC on small
instances and proves it with TLAPS for all of them.

## Inventory

### Bomb-Man

A frame runs in this order: touches and gestures, `GameScene.update`, the
SKActions that are due, physics with `didBegin` for every new contact,
`didFinishUpdate` (camera).  Everything is on the main thread, so callbacks
interleave but never overlap.

| component | state | operations | what makes it correct |
| --- | --- | --- | --- |
| Turn keeper, `TurnBase.swift` | turn, changeTurn, timer, endGame, static winner, static pause | `update`, `refresh`, `didChangeTurn`, `updatePlayerHealth` | no death overlooked, the winner's opponent is dead, the timer never runs below one |
| Fighter and bombs, `CharacterNode.swift`, `Bomb.swift` | life, action, aim, bombReady, takeDamage, child bombs; walking and jumping | `setNewBomb`, `throwBomb`, `explode` | bombReady and aim never outlive the bomb, one bomb at a time |
| State machine, `*State.swift` | state, clocks of aiming, attacking and stun | `update(deltaTime:)` per state | every throw ends in a turn change; nobody is stuck aiming |
| Scene, `GameScene.swift` | the player followed, movement time, bomb time, camera flags, touch lock | `update`, `updateBomb`, `dragShoot`, `didFinishUpdate` | scene and turn keeper agree on the player; the game ends after a death; the touch pad is not locked for ever |
| Contacts, `PhysicDetection.swift` | none of its own | `didBegin` | a hit costs one life and is noticed |
| Touch pad, `TouchControlInputNode.swift`, `GamePad.swift` | pressed buttons, delegate, left/right/jump flags | touches began, moved, ended, cancelled; `follow` | a player moves only while a finger is on the button |
| Start and end scenes | static winner and pause | one touch | each screen leads to the next |

The hard part is the interplay: `aim`, `bombReady`, `action` and the bomb itself
are changed by touches, by the drag's end, by a queued action one phase later, by
contacts, by `updateBomb` and by five states, and each of these places tests a
different subset of them.  Lives are lost in the physics phase and judged in the
next frame; a verdict can be recomputed for three seconds.

### JMatch

| component | state | operations | what makes it correct |
| --- | --- | --- | --- |
| Matching, `SwipeCardView.updateUserLike` | `matches/<a>/<b>` in the database | a read, then one or two writes | two likes make a match |
| Card deck, `SwipeContainerView`, `MatchViewController` | cards shown, cards remaining, users loaded so far | swipe, reset, a user arrives | every user is shown once |
| Messaging, `ChatLogController`, `MessageTableViewController` | `messages`, `user-messages`, message lists | send (three writes), two levels of observers | both sides see the message; an open chat shows all of them, the list one per partner |
| Friends list, `FriendsTableViewController` | users shown | childAdded and value observers | every match is listed once |
| Profile, `ProfileViewController` | static user and canEdit, `profile/<uid>` | edit, upload, logout | shows and edits the right user |
| Sign-up and login | account, user record | a chain of remote calls | success is shown only for a complete user |
| Image cache, `Extensions.swift`, `UserCell.swift` | cache, cells | load, reuse | a cell shows the picture of its user |
| Database client, `Pods/FirebaseDatabase` | pending writes and their tree, views with two caches, connection state, listens, outstanding puts, answers held back | set, update, observe, remove, purge; retry, token, auth, listen and put answers, pushes, interruptions | never offline with nothing under way; writes replayed in order; every answer finds its write; events show the server's data under the pending writes and never go back |

The hard part is that every answer comes late: reads are followed by writes with
nothing to hold them together, observers fire again, indices are computed from
lists that have grown.  In the database client everything runs on one serial queue,
but the callbacks of a token fetch, a retry, a lost connection and an interruption
come in any order; a lost connection takes with it the answers and not the writes;
and overlapping writes are confirmed or refused while the server pushes the same data.

## Modules

| module | models |
| --- | --- |
| `TurnBase` | `TurnBaseNode`, each method as an operator from the node before the call to the node after it |
| `Character` | `CharacterNode` with its bombs, the five states, the part of `GamePad.follow` that chooses between moving and aiming |
| `GameScene` | the scene: variables, touches, `update`, the action phase, `didBegin`; the properties |
| `Duel` | what a game promises, without frames, bombs or timers; `GameScene` implements it |
| `Controls` | the touch pad, the walking flags its commands raise, the hand-over at a turn change, the camera's waits and the touch lock |
| `Matching` | JMatch: the likes of several users and the database between them |
| `Deck` | JMatch: the deck of cards against the list that still loads |
| `Messaging` | JMatch: the writes of a send, the observers of both sides |
| `Conversation` | what messaging promises; `Messaging` implements it |
| `Accounts` | JMatch: sign-up, login, the profile controller and its static state, on one device |
| `WriteTree` | database client: pending writes, and the tree that folds them (`FWriteTree`, `FCompoundWrite`), as operators |
| `View` | database client: how a view follows writes, server data and answers (`FViewProcessor`), as operators |
| `Link` | database client: connection, listens and puts (`FPersistentConnection`), and the server's side of the wires |
| `Client` | database client: `Link` with the write tree, a view, the server's data and another client (`FRepo`, `FSyncTree`); the properties |
| `Replay` | what the client promises about its writes; `Client` implements it |
| `MCGameScene`, `MCControls`, `MCMatching`, `MCDeck`, `MCMessaging`, `MCAccounts`, `MCClient` | instances for TLC |
| `GameScene_proofs`, `Controls_proofs`, `Matching_proofs`, `Deck_proofs`, `Messaging_proofs`, `Accounts_proofs`, `View_proofs`, `Client_proofs` | the theorems; `View_proofs` is about the operators of `WriteTree` and `View` alone |

How `GameScene` corresponds to the code:

* `turnBase` and `char` are the objects `TurnBase`, `Player1` and `Player2`, as
  records with one field per property of the class.  A fighter's `state` is the
  current state of its `GKStateMachine`; `aimTime`, `attackTime` and `hitStun`
  are the counters that the state objects keep between visits.  `bombs` are the
  children called "bomb", eldest first, as `childNode(withName:)` finds them.
* `phase` is the place in the frame.  The actions `PressMove`, `PressO`,
  `DragShoot` and `TouchPause` are the callbacks of the input phase, in any
  number and order; `Update(dt)` is the whole of `GameScene.update`, in the
  order of the code: clock, turn change, health, end screen, entities, bombs;
  `RunActions` runs the tosses and the waits that leave the scene;
  `BombHitsWall` and `BombHitsPlayer` are the branches of `didBegin` for bombs.  Those for
  BOUNDARY, which would end a life without the flag `takeDamage`, are left out, as no body
  can take them: the code gives the categories PLAYER, PLAYER2, GROUND, WALL and BOMB
  only, and the bodies archived in `GameScene.sks`, a property list that can be
  read with any tool for these, have 0, 1, 2 and 4, while BOUNDARY is 8;
  `Crash` is the index out of range in `updatePlayerHealth`.
* Clocks stop at the value they are compared with (`Advance`), so that time does
  not grow without bound.  The clocks of AimState and AttackState add the time
  of the frame before; the model adds a frame time chosen from `Steps`, which
  allows every sequence of frame times the code can see.
* `bombTime` counts updates.  The code adds the time since the device was
  started and compares with 40 000 000, which is a number of frames that depends
  on the device; `BombLife` stands for it.
* What a thrown bomb meets is the physics engine's choice, so any bomb may meet
  a wall, the ground or the other player in any physics phase, or nothing.  A
  bomb in the hand has a body too and may do the same.  Each bomb is reported
  at most once.

How `Controls` corresponds to the code:

* `finger` says where each finger is, `pressedButtons` is the array of that name
  in `TouchControlInputNode`, `inputDelegate` the player whose `GamePad` gets the
  commands, `moves` the flags `left`, `right` and `jump` that are up.  `Began`,
  `Moved` and `Ended` are the touch handlers with every command they send;
  `Cancelled` knows only the commands that `GamePad.follow` knows.
* `enabled` is `isUserInteractionEnabled` of the pad.  UIKit delivers a touch to
  the view it began in, so a touch that begins on a locked pad is never the
  pad's; what it does later is `Unheard`.  A touch that began before the lock may
  be heard of or not.
* `Update` may change the turn in any frame: why a turn ends is `GameScene`'s
  matter.  `waits` are the actions `didFinishUpdate` queues; `RunActions` ends
  those that are due, each of which toggles the lock.

How `Matching` corresponds to the code:

* `matches[a][b]` is the entry `matches/<a>/<b>`.  `SwipeRight` calls
  `updateUserLike`: `reads` holds the `observeSingleEvent` until its callback has
  run (`Receive`), `writes` the `updateChildValues` that the database has not
  applied.  `Cards` is the filter of `fetchUser`.
* The database is external: reads are answered in any order, the writes of one
  app arrive in order, and an app sees its own writes at once (`Exists`).
* `Kill` loses what has not arrived; `Relogin` is `handleLogout` and a login,
  which build a new deck while the old callbacks are still alive.  A user has one
  device.

How `Deck` corresponds to the code: `viewModelData` and `remainingcards` are the
properties of that name, a card is a position in the list, `FetchUser` is an
answer that appends a user, `ResetTapped` the search with `reloadData`,
`SwipeDidEnd` the delegate call of a swiped card.  `offered` and `known` are
history.  Several cards show their edges, so any card on the stack may be swiped.

How `Messaging` corresponds to the code:

* `Posted` is `sendMessageWithProperties` up to its first write; `Complete` is the
  completion block, which writes the keys; `Apply` and `Refuse` are the database,
  which takes the writes of an app in order or refuses one.  A refused message
  ends in the block's early return; a refused key is noticed by nobody.
* A key stands for its message, as `childByAutoId` never repeats one.
* `view` is what a screen has heard, waits for and has fetched.  The chat
  (`ChatLogController`) and the list (`MessageTableViewController`) observe alike, the
  list from the start.  An answer is appended in the chat; in the list it replaces the
  partner's entry of `messageDictionary`, so the last message answered is shown, which is
  an older one if the reads overtake each other.  The list's outer
  observer, one per partner, only delays the inner one and is left out.
  `chatPartnerId` is the partner whose keys are observed, by `NoDanglingKey`.
* An app sees its own keys before the database has them (`Seen`).
* `Kill` also stands for the crash of an upload that ends after a logout.

How `Accounts` corresponds to the code:

* `session` is `Auth.currentUser`, which outlives the process; `screen` is what the
  process shows.  `user` and `canEdit` are the static properties of
  `ProfileViewController`, `tab` the controller in the tab bar with the buttons it
  got when it was loaded, its name field and its entries.  The controller of a
  sheet shows no more than it reads, so of it only `sheet` and its reads are kept.
* `asks` are the reads of `checkIfUserIsLoggedIn`, which set the static user when they
  are answered, also for controllers that are gone; `loads` those of
  `observeProfileContent`.
* `SignUp` is the handler up to its return: the upload has started, success is shown,
  the first screen is back.  `SignUpWrites` is the end of the chain, `SignUpFails` a
  failure of any of its three steps.
* `UidMissing`, `NobodyToShow` and a branch of `FetchRecord` are the forced unwrappings
  that stop the program.
* A name or an entry is represented by the user who gave it, the four entries of a
  profile by one.  The database is seen from one device; a write is applied or
  refused at once, as the loss of writes under way is the matter of `Matching` and
  `Messaging`.  A password's reset, the picker and the checks of fields are left out.

How `Client` and `Link` correspond to the code:

* Everything runs on the repository's serial queue, so an action is one callback with
  all it calls: `Write` is `set` or `update` through tree, view and connection,
  `ReceivePut` the callback of `sendPut` through `ackWrite`, `ReceiveListen` that of
  `sendListen` with the held answers it lets go, `ReceiveData` `onDataUpdate`, and
  so on.
* `conn` holds `connectionState`, the interruptions, the pending retry, the token and the
  token fetch whose callback counts (`currentFetchTokenAttempt`; older ones do
  nothing).  The repository is set up and `open` has been called.
* A put is known by its number, which is that of the write as well; a listen by a
  number that stands for the identity of its `FOutstandingQuery`, which is what the
  callback of `sendListen` compares.  The callbacks of `requestCBHash` are the answers
  still to come; they die with the connection (`onDisconnect`), `outstandingPuts`
  and `putsToAck` do not.
* `RestoreState` sends the listens in any order, as a dictionary has none, and the puts in
  theirs.  A listen carries the hash of the server's cache (`Hash`): two caches hash
  alike when they are equal.
* A location has two levels, itself and its children; that is what tells a write that
  hides others from one that is hidden.  One query's data is followed (`Data`);
  `users` is the query that MatchViewController.swift:121 observes for good and takes
  part in the traffic only.  `AckUserWrite` and the rest of `View` return the new view; events
  are what `ev` shows.
* The server is external and does what the client relies on: it answers in order,
  except that a listen may take longer than the puts after it; data comes before the
  answer it belongs to; a listen's data is only sent when the hash differs or is that
  of nothing (an empty node has no hash, and a view without a cache counts on complete
  data, `FViewProcessor.m:591`); requests
  of a lost connection are lost, handled or handled with the answer lost.  It may
  refuse a write, a listen or a token, revoke a listen, and shut the client out.
* The foreground and reachability notifications only hurry a retry that
  `NeverStranded` says is there.  `onAuthRevoked` closes the connection, as `ConnectionLost` does.
* `goOffline` and `purgeOutstandingWrites` are modelled though the app calls neither.
  Not modelled: transactions, onDisconnect operations, persistence, priorities, filtered
  queries, values instead of children at the location itself.  The app uses none of
  them.

Abstracted: positions, speeds, the impulse, textures, sounds, labels, the camera.
`Character`, `TurnBase`, `Controls`, the modules of JMatch and those of the client hold operators whose comment starts with "Mutated";
the specification never uses them, they are the slips against which each property
was tried.

## Runs

| run | instance | shows |
| --- | --- | --- |
| `duel_safety` | two lives, two bombs per player, frames of length 1 and 2, a turn of two seconds of two units each | all safety properties, the inductive invariant, the verdict rule and the refinement of `Duel` |
| `duel_live` | everything at its smallest, two bombs per player | the liveness properties |
| `fresh_turn`, `one_bomb` | the same | two comments of the code that the code does not keep |
| `controls` | two fingers, a direction and the jump button, frames of length 1 and 2, waits of 2; fingers do not slide | pressing and moving agree, nobody moves off turn, the camera turns, the inductive invariant |
| `off_turn` | one finger, one button, which may slide | another comment that the code does not keep |
| `matching` | two users, two kills, one logout each | a match is mutual and lasts, both sides agree |
| `deck` | six users, three cards on the stack as in the code | nobody is offered twice; everybody is, if nobody comes after the search; the inductive invariant, which counts the cards |
| `messaging` | two messages from either side, a chat on one side and a list on the other, one loss | no dangling key, no doubles, the conversation; an accepted message reaches both sides and is shown |
| `accounts` | a user who has signed up before and a new one, one upload and two or three reads at a time | names and entries stay the user's own, the program stops only over an incomplete record |
| `client` | two children, two scripts of two overlapping writes, one foreign write, one listen that comes and goes, one fault | the connection's inductive invariant, the pending writes, the view, convergence, no step back, the refinement of `Replay` |
| `uid_known` | the same as `accounts` | an assertion of the code that does not hold |

Bounds.  Two lives make a player who is hit, stunned, recovers and dies; with one
life in the liveness run, the first hit kills.  Two frame lengths let clocks run
out of step; longer clocks add only more frames between the same events.
`MaxBombs` limits touches on O, not the code: with two bombs of one player every
rule about the eldest bomb is exercised.  Deadlock is not checked because the game
really ends: the scene is left or the program stops.  In `controls`, two fingers
meet on one button; a wait of two lets waits overlap and end together, which is
what makes the number of toggles odd or even.  In `matching`, entries concern
pairs, so two users show every race of one pair; two kills lose a like on both
sides or on one twice.  In `deck`, up to three users are behind the stack at the search or arrive after
it, which is what shifts the index; users are alike, so symmetry is sound (no
liveness is checked there).  In `messaging`, two messages meet in every order of writes, keys and
answers, of one sender or of both, which is what makes reads overtake and the list
replace its entry; one loss is a kill or a refused key in any place.  `Looking` says who
looks at which screen: screens only read, so one of each kind stands for all, and as
both users send and the users are alike, it does not matter whose it is.  The invariants
were checked with both screens on both sides as well (1.2 million states).  In `accounts` two users
share the device, which is what makes the static state stale; three reads (the two
that a controller starts when one is already under way) answer in any order.
In `client` the scripts are a child's write over one of the whole, and one of the
whole over a merge; each write may be accepted or refused.  One
fault of seven kinds comes at any moment, so a connection is lost after each step of
a put.  The sixteen scripts that two writes can form, 8.6 million states in four parts, were
checked as well, and scripts in which a value comes back; the run takes two that overlap.
Deadlock is not checked in these because a deck, likes and keys run out; in
`accounts` a sign-up with no upload left to start waits for a kill, and in `client` the bounds
run out and an assertion stops the program.

Fairness (`duel_live`, `controls`): weak fairness of
`Frame`, because SpriteKit keeps rendering, and every frame takes time.  No player is obliged to
touch anything and no bomb to meet anything, so a bomb that flies for ever is a
behaviour, and `updateBomb` is what has to end it.  `matching`: weak fairness of
`Network`, because Firebase retries until it is answered; nobody has to swipe.
`messaging`: weak fairness of each app's writes and of each screen's
observers, for the same reason; nobody has to send, and a chat may be closed and
opened for ever without starving the writes.

What the passing runs say:

* `DeathNoticed`, `WinnerSound`, `VerdictRevised`: a death is never overlooked, a
  winner's opponent is dead, and a verdict changes only from P1 to P2 when both
  die.
* `ArmedOnlyInAim`, `NoStunWithBomb`: no stale `bombReady`; a bomb's owner is
  always the one who waits for it, on and off turn.
* `DuelSpec`: the game is a duel with a referee; in particular the program stops
  only when a dead player is hit again.
* `AttackEndsTurn`, `AimNotStuck`, `DeathEndsGame`: a throw ends the turn unless
  its owner touches O while the bomb flies; a player whose bomb blew up in his
  hand is not stuck; a death ends the game.
* `PressedMoves`, `OffTurnStill`: as long as fingers do not slide, the pad and the
  walking flags agree whatever touches go unheard.  `CameraTurns`: the turn is
  not starved by the waits that follow bombs.
* `MatchIsMutual`, `BothOrNeither`: two likes that cross make no match, but then
  neither side has one.  `MatchStays`: within one login no late answer takes a
  match back.  A logout with a read under way gives the card back, and then the
  old answer can write false over the match, on one side only: the exception in
  the property is needed.  `LikeBackMatches`: a like that finds a like ends in a
  match on both sides unless the app is killed between the two writes.
* `OfferedOnce`, `EverybodyOffered` and the count in `IInv`: a list that grows while cards
  are swiped repeats nobody and stays in range, but every late user takes the
  place of an earlier one, because the next index is counted from the end.  A
  search before the first answer leaves the deck empty, since the button works
  once.
* `NoDanglingKey`, `ConversationSpec`: keys are written only after their message was
  accepted, to the two who speak.  `NoDoubles`: the own key, seen
  early, and the database's never show a message twice.  `ShownInTheEnd`: a chat that stays
  open comes to show every message and loses none; the list comes to have an entry for every
  partner and keeps it.  That it is of the latest message the code does not
  guarantee: reads may be answered out of order.  `BothSides` needs its
  exception: an app killed between the writes leaves a message on one side or on
  none.

* `NameKept`, `EntriesKept`: as long as a process serves one user and no friend's
  profile is opened, nobody else's name or entries are written to the user's
  record, whatever answers late.  Both exceptions are needed: the static user
  outlives the sheet and the login, so the tab shows and `Save` writes the name of
  the friend or of the former user; and `canEdit` stays false after the sheet, so an
  empty own profile is filled with the friend's entries.  `CrashExplained`: while all
  records are complete no unwrapping of the match, account and profile screens fails (that of
  the chat after a logout, `ChatLogController.swift:287`, is a `Kill` in `Messaging`); that late writes never damage a complete
  record (`RecordStays`) is proved.
* `NeverStranded`: at most one of retry, token fetch and connection is in charge, and
  without an interruption always one is.  `IInv` adds that nothing is opened while
  interrupted.
* `AcksReleased`: the answers that `putsToAck` holds are let go.  This depends on a
  listen being there: answers held when a connection is lost wait for the listens
  of the next one, and a client without any would keep them.  The app always
  observes `users`, which is the assumption `Permanent # {}`.
* `PendingExact`: what the repository shows as pending is what the connection still owes
  an answer for, in order; its exception is `purgeOutstandingWrites`, which empties
  the tree before the held answers reach it and then fails the assertion
  `FWriteTree.m:147`.
* `ViewExact`: the tree that is maintained write by write is the layering of the writes,
  and what a view has told is the server's data with them on top.
* `Converges`: when nothing is under way any more, nothing is pending and the view is
  the server's data, whatever was lost, sent twice or refused.
* `NeverOlder`: an accepted answer changes what the user sees of a child only when the
  server has replaced that since; this is what holding answers back during a listen is
  for.  `past` is the history it needs: all values the server has ever given up, per
  child.  (To say that no value given up comes back would be too much: another client
  may write it again.)
* `ReplaySpec`: writes reach the server in order over each connection, none skipped, and are
  told in order, each once.  They may be applied twice: a put whose answer was lost is
  sent again, and its second application can replace what another client wrote in
  between.  That follows from the protocol and is part of `Replay`.

What the failing runs say:

* `FreshTurn` (`GameScene.swift:277`): the action of the old player is reset, not
  that of the new one.  A player whose last bomb goes off during the opponent's
  turn gets the action Shoot off turn, and his own next turn lasts one frame.
* `OneBomb` (`IdleState.swift:83`, `CharacterNode.swift:141`): O touched in the
  frame between the toss and AimState's look at it raises `aim` again; AimState
  stays and sets a second bomb.
* `OffTurnStill` (`GameScene.swift:289`): a finger that slides off a direction sends
  "cancel left", which `GamePad.swift:29` spells "cance left"; the button is no
  longer pressed, so the fake touch-up of the turn change does not stop it and
  the player walks on off turn.
* `UidKnown` (`ProfileViewController.swift:174`): sign-up shows success before its
  uploads end.  If the app is killed, an upload fails, or the user is quick, `Save`
  makes a record with a name only; `MatchViewController.swift:127` unwraps its uid
  in every app that opens the match tab.

One more property of `Controls` fails without being a run, as the comment it
stands on (`GameScene.swift:292`, "Turn controller") says too little: `PadUnlocked`.
Until the first wait ends every frame queues another one, and each toggles the
lock; an even number leaves the pad locked.  `FairSpec` with one finger, one button,
steps of 1 and 2 and a wait of 2 shows it.

## Proofs

`GameScene_proofs` proves for all values of the constants (any number of lives,
hearts, bombs and any timing) that `Spec` implies every safety property of the
run `duel_safety`, and `TypeOK`: `DeathNoticed`, `WinnerSound`, `ArmedOnlyInAim`,
`NoStunWithBomb`, the action property `VerdictRevised` and the refinement
`DuelSpec`.  The assumptions are those on the constants: lives, times and limits
are positive integers.

None of the safety invariants is inductive.  `IInv` adds:

* the scene and the turn keeper agree on the player (`TurnAgrees`), or a drag
  would throw the bomb of one player and the pad arm the other;
* per fighter (`Aiming`): a ready bomb means AimState, aim up and the aiming
  clock at zero; AimState without aim has its clock at zero, or the second bomb
  would appear in the frame that leaves it; a queued toss belongs to a ready bomb;
* the wait for the end screen runs only after the verdict.

The first half of `GameScene_proofs` proves once per method of a fighter that it keeps
the fighter's part (`CharacterInv`) and what it does to `life`; the second composes
these per action.  `UpdateFacts` says what `update` does to the verdict; the verdict rule
and the refinement need only that and the invariant.  The refinement maps every
`Update` to the referee, every hit to a strike, `Crash` and the two exits to
`Leave`, everything else to a stutter.

`Controls_proofs` proves `PressedMoves`, and `OffTurnStill` if fingers do not
slide, for any fingers, buttons and timing.  The invariant adds that, without
slides, whatever moves the player on turn is pressed, the jump apart; so the
hand-over, which stops what is pressed and the jump, stops everything.  `TypeOK`
is part of the invariant.

`Matching_proofs` proves `TypeOK`, `MatchIsMutual`, `MatchStays` and `BothOrNeither` for any
number of users, kills and logouts.  The invariant has four parts.  `LikesInv`: every
entry, every answer and every write on its way is backed by the likes it stands
for; likes are never taken back, so steps of different users cannot disturb each
other; `MatchIsMutual` follows.  `OthersInv`: an app writes for somebody else only over an
entry that is there, and then the value true.  `OnceInv`: as long as a user has not
logged out, somebody is a card, a read or a write of the own entry, exactly one of
them and once, and the entry is not there before; so the value false never comes
late, which is `MatchStays`.  `AgreeInv`: without kills and logouts a like is read, written or
stored, and if one half of a match is on its way or stored, so is the other; when
nothing is on its way that is `BothOrNeither`.

`Deck_proofs` proves `TypeOK`, `OfferedOnce`, `AsManyAsKnown` and `EverybodyOffered`.  The
invariant says that the positions offered rise and lie below the next index; a user
who is listed only moves that index up.  That everybody is offered then follows by
counting: as many positions, none twice, as there are users on the list.

`Messaging_proofs` proves `NoDanglingKey` and the refinement of `Conversation`.  The
invariant carries the claim about keys back to the writes on their way and to the
completion blocks that will make them, and says that ids are not repeated, which
the refinement needs when a message is said.  `NoDoubles` is proved from an
invariant of its own: what a screen has been told of, waits for and has fetched
exclude each other.

`Accounts_proofs` proves `NameKept`, `EntriesKept`, `RecordStays`, `CrashExplained` and
`TypeOK` for any number of users, uploads and reads.  The invariant says, for a
process without friends' profiles and logouts, that the static user and every
read belong to the user of now, and that what the tab shows is his, empty, or what
is stored; for the sign-ups, that before they write nothing but the user's own
name is stored; for the crash, that canEdit is false only with a user to show.

`Client_proofs` is about the database client, for any queries, scripts of writes, values,
bounds and faults and any first data: it proves every safety invariant of the run
`client`, that is `NeverStranded`, `AcksReleased`, `PendingExact`, `ViewExact`,
`Converges` and `IInv`, and that `Client` implements `Replay` (`ReplaySpec`).  The assumptions
are those on the constants in `Link` and `Client`: some query is observed for good, the
scripts are writes, the values include `Empty`, bounds are natural numbers.

*The connection.*  `NeverStranded` needs only that nothing is
opened while interrupted.  `AcksReleased` counts listens in two wires: the invariant
adds that they are empty without a connection, that the auth answer that will
restore the state comes before anything else (`RestoreNext`), so no put is sent and no
answer held before the listens are sent again, and that no permanent listen is refused
or revoked, so there is one to wait for.  The lemmas on wires say how that count
changes when a message is added or taken.

*The writes.*  Neither `PendingExact` nor the refinement is inductive: what the
server handles next depends on what is on the wires, and which writes are told at once
on the answers held back.  `IInv` adds:

* `PutsOrdered`: the puts on each wire are in the order of the writes; those on the way
  to the server lie above the last one it handled over this connection, the answers
  below, and what is answered was handled.  Or a write could be handled out of order,
  or told before it was handled;
* `PutsUnderWay`: once the state is restored every outstanding put is on one of the
  wires, so the server skips none; before that nothing is, and the auth answer that
  restores it comes once, or the puts would be sent a second time;
* `PutsPending`: held answers belong to handled writes older than every outstanding one,
  so that answering a listen tells a prefix of what is pending.

The argument follows a put: sent behind all others, taken from the front, answered
behind all answers.  `AckAll` shows by induction on the
number of answers that each takes exactly its own write from the list, and `Restored`
that the sorted puts of `restoreState` are the outstanding ones in order.

*The view.*  `ViewExact` says that two things maintained piece by piece are what they would be
if computed anew: the tree of pending writes, and what the events have told.
`View_proofs` shows for the operators that adding a write layers it on top; that removing
one, anywhere in the list, gives the layering of the rest, whether the write was hidden
by a later one (then nothing changes), lives folded in its parent's (then the location
is layered again) or on its own; and that a view whose events were the data under
the tree before a push, a write, an answer or a refusal has the data under the tree
after it.  An accepted write is merged into the events only where no other write
hides it, and only by a view that knows the whole location: so `IInv` adds
`ViewAwaits`, that a view which does not waits for its listen (and then no write
is acknowledged to it).

*Convergence.*  `Converges` speaks of a moment when nothing is under way; `ViewFollows` is
what has to hold until then:

* `Served`: once the server has begun the listen of a view that nothing on its way ends,
  it still follows it, and per child (`Reaches`) the last push on the wire makes the
  child what the server has; without a push the view has it already;
* `HashHolds`: a listen that names data by its hash names what the view has, the server
  is not following yet and no push can change the data before the two are compared;
  before the state is restored nothing has been asked or told.  So a listen that is
  answered without data is answered rightly;
* `CompleteFirst`: a view that does not know everything is told everything before the
  answer of its listen, or its hash was right, so the answer makes it complete;
* `LastWord` and `Numbered`: the server is not told to stop after it was told to begin, and
  the answer of an older listen is never taken for that of the view.

The proof follows every step of the server, the other client and the connection through
these parts.  It found two mistakes in the model.  The server used to send no data to a
view without a cache when its own data was empty; the proof of `CompleteFirst` failed
there, because a push left over from an earlier listen of the query could come in
between and be taken for the data.  And `NeverOlder` as it was first stated fails when
a value is written twice, which the earlier run did not contain.

Several definitions fold over sequences: the layering of writes, `AckWrite` over the
answers that are told, the sorted puts.  `Folded` and its kind unroll such a fold into a function
that the prover can reason about; inductions over numbers come from `Least`, that a set
of numbers has a least one.

Only model-checked: the liveness properties (fairness is out of the prover's
reach), and of the client `NeverOlder`.  Its proof needs to know of every answer on a
wire or held back what its write stored and what the server has told of it since,
an invariant over `past` that is still to be found.

## Not modelled, and the plan

The plan, in order of importance.  What is not yet there is listed as a component
with the reason, and its hazards are listed with a note.

1. `TurnBase`, `Character`, `GameScene`, `Duel`: done, with their proofs.
2. `Controls` and its proofs: done.
3. `Matching` and its proofs: done.  Next: an abstract specification (a match is recorded
   when both like each other and their likes do not cross), and `Friends`, the
   list that observes `matches`: every match is listed once.
4. `Deck` and its proofs: done.
5. `Messaging`, `Conversation` and their proofs: done.
6. `Movement`: walking, jumping, the hit push and the stun, on top of `Controls`
   and `Character`; `Scenes`: start and end screens with the static pause and
   winner.
7. `Accounts` (sign-up, login, profile) and its proofs: done.  `ImageCache` is left.
8. `WriteTree`, `View`, `Link`, `Client`, `Replay` and their proofs: done but for `NeverOlder`.
   Left: that a client whose faults end gets all its answers (liveness), transactions.
9. Proofs for 6, and those left over above.

Left out for good: textures and animation, parallax, music, layout, the
application delegates; they keep no state that another part reads.  And of the vendored
pods everything but the database client: cryptography, HTTP/2, a key-value store, a
serialiser, most of it C and C++ and most of it not called by JMatch.  That is
also why the models cover a small share of the repository's lines: its own code is
5 400 lines of Swift, the pods are 175 000 of other languages.
