--------------------------- MODULE Accounts_proofs ---------------------------
(***************************************************************************)
(* In a process that serves one user, names and entries stay his own; and  *)
(* the program stops by itself only over an incomplete record: for any     *)
(* number of users and any number of uploads and reads under way.          *)
(***************************************************************************)
EXTENDS Accounts, TLAPS

USE NoneAssumption

\* Before the first touch nobody is logged in, and the records of the old users are
\* complete.
LEMMA InitInv == Init => IInv
<1> SUFFICES ASSUME Init PROVE IInv
  OBVIOUS
<1>1. \A u \in User : record[u] \in {NoRecord, Complete(u)}
  BY DEF Init
<1>2. TypeOK
  BY OldAssumption, <1>1 DEF Init, TypeOK, Record, NoRecord, Complete, Tab, NoTab, Ask
<1>3. Sessions /\ NewAccounts
  BY DEF Init, Sessions, NewAccounts, Unknown, NoTab
<1>4. CleanNames /\ CleanEntries
  BY DEF Init, CleanNames, CleanEntries, NoTab
<1>5. FlawsKnown
  BY <1>1 DEF Init, FlawsKnown, Flaw, Complete
<1>6. QED BY <1>2, <1>3, <1>4, <1>5 DEF IInv

\* A process that ends leaves the database and the session.
LEMMA EndInv ==
  ASSUME IInv, End, crashed' \in BOOLEAN
  PROVE  IInv'
BY DEF IInv, TypeOK, Sessions, NewAccounts, Unknown, CleanNames, CleanEntries, FlawsKnown,
       Clean, Flaw, End, Record, NoRecord, Tab, NoTab, Ask, database

\* A new process starts from nothing.
LEMMA LaunchInv ==
  ASSUME IInv, Launch
  PROVE  IInv'
BY DEF IInv, TypeOK, Sessions, NewAccounts, Unknown, CleanNames, CleanEntries, FlawsKnown,
       Clean, Flaw, Launch, NoTab, database, shown, statics, running, history

\* Nothing is known of a user who has no account.
LEMMA CreateAccountInv ==
  ASSUME IInv, NEW u \in User, CreateAccount(u)
  PROVE  IInv'
BY DEF IInv, TypeOK, Sessions, NewAccounts, Unknown, CleanNames, CleanEntries, FlawsKnown,
       Clean, Flaw, CreateAccount, NoTab, database, shown, statics, running, history

\* The record of a user who signs up is still to be written.
LEMMA SignUpInv ==
  ASSUME IInv, SignUp
  PROVE  IInv'
BY DEF IInv, TypeOK, Sessions, NewAccounts, Unknown, CleanNames, CleanEntries, FlawsKnown,
       Clean, Flaw, SignUp, NoTab, NoRecord, database, shown, statics, running, history

\* The record that a sign-up writes has the name its user gave.
LEMMA SignUpWritesInv ==
  ASSUME IInv, NEW u \in User, SignUpWrites(u)
  PROVE  IInv'
<1>1. TypeOK'
  BY DEF IInv, TypeOK, SignUpWrites, Complete, Record, database, shown, statics, running,
         history
<1>2. Sessions' /\ NewAccounts'
  BY DEF IInv, TypeOK, Sessions, NewAccounts, Unknown, SignUpWrites, database, shown,
         statics, running, history
<1>3. CleanNames'
  <2>1. SUFFICES ASSUME Clean PROVE CleanNames'
    BY DEF CleanNames, Clean, SignUpWrites, running
  <2>2. /\ record'[u].name = u
        /\ \A v \in User \ {u} : record'[v] = record[v]
    BY DEF IInv, TypeOK, SignUpWrites, Complete
  <2>3. tab.open => tab.name \in {Blank, session, record'[session].name}
    <3>1. tab.name # None
      BY DEF IInv, TypeOK, Tab
    <3>2. record[u].name \in {None, Blank, u}
      BY <2>1 DEF IInv, CleanNames, SignUpWrites
    <3>3. QED BY <2>1, <2>2, <3>1, <3>2 DEF IInv, TypeOK, Sessions, CleanNames
  <2>4. QED
    BY <2>1, <2>2, <2>3 DEF IInv, TypeOK, CleanNames, Clean, SignUpWrites, shown, running
<1>4. CleanEntries'
  BY DEF IInv, CleanEntries, SignUpWrites, shown, running
<1>5. FlawsKnown'
  BY DEF IInv, FlawsKnown, Flaw, SignUpWrites, running
<1>6. QED BY <1>1, <1>2, <1>3, <1>4, <1>5 DEF IInv

\* A sign-up that fails is forgotten.
LEMMA SignUpFailsInv ==
  ASSUME IInv, NEW u \in User, SignUpFails(u)
  PROVE  IInv'
BY DEF IInv, TypeOK, Sessions, NewAccounts, Unknown, CleanNames, CleanEntries, FlawsKnown,
       Clean, Flaw, SignUpFails, NoTab, database, shown, statics, running, history

\* In a clean process the static user is nobody before the login.
LEMMA LoginInv ==
  ASSUME IInv, NEW u \in User, Login(u)
  PROVE  IInv'
BY DEF IInv, TypeOK, Sessions, NewAccounts, Unknown, CleanNames, CleanEntries, FlawsKnown,
       Clean, Flaw, Login, NoTab, database, shown, statics, running, history

\* The match controller only observes.
LEMMA OpenMatchInv ==
  ASSUME IInv, OpenMatch
  PROVE  IInv'
BY DEF IInv, TypeOK, Sessions, NewAccounts, Unknown, CleanNames, CleanEntries, FlawsKnown,
       Clean, Flaw, OpenMatch, database, shown, statics, running, history

\* In a clean process the tab asks for the user of now.
LEMMA OpenProfileInv ==
  ASSUME IInv, OpenProfile
  PROVE  IInv'
<1>1. session \in User /\ Content \in User
  BY DEF IInv, TypeOK, Sessions, OpenProfile, Content
<1>2. tab' = [open |-> TRUE, save |-> canEdit, name |-> Blank, txt |-> None]
  BY DEF OpenProfile, NoTab
<1>3. tab'.name = Blank /\ tab'.txt = None
  BY <1>2, Zenon
<1> DEFINE asked == IF user = None THEN session ELSE user
<1> DEFINE ask == [tab |-> TRUE, of |-> asked]
<1>4. asks' = asks \cup {ask} /\ ask \in Ask /\ ask.of = asked /\ asked \in User
  BY <1>1 DEF IInv, TypeOK, OpenProfile, Ask
<1> HIDE DEF ask
<1>5. TypeOK'
  <2>1. tab' \in Tab
    BY <1>2 DEF IInv, TypeOK, Tab
  <2>2. asks' \subseteq Ask /\ loads' \subseteq User
    BY <1>1, <1>4 DEF IInv, TypeOK, OpenProfile
  <2>3. QED BY <2>1, <2>2 DEF IInv, TypeOK, OpenProfile, database, statics, running
<1>6. Sessions' /\ NewAccounts'
  BY <1>2 DEF IInv, Sessions, NewAccounts, Unknown, OpenProfile, database, statics, running
<1>7. CleanNames'
  <2>1. SUFFICES ASSUME Clean PROVE CleanNames'
    BY DEF CleanNames, Clean, OpenProfile, statics, running
  <2>2. /\ user \in {None, session} /\ asked = session
        /\ \A a \in asks : a.of = session
        /\ \A v \in signUps : record[v].name \in {None, Blank, v}
    BY <2>1 DEF IInv, CleanNames
  <2>3. \A a \in asks' : a.of = session
    BY <1>4, <2>2
  <2>4. tab'.name = Blank /\ screen = "tabs"
    BY <1>3 DEF OpenProfile
  <2>5. QED BY <2>2, <2>3, <2>4 DEF CleanNames, OpenProfile, database, statics, running
<1>8. CleanEntries'
  <2>1. SUFFICES ASSUME ~looked PROVE CleanEntries'
    BY DEF CleanEntries, OpenProfile, statics, running
  <2>2. canEdit /\ Content = session /\ loads = {}
    BY <2>1 DEF IInv, Sessions, CleanEntries, Content, OpenProfile
  <2>3. loads' = {session} /\ tab'.txt = None
    BY <1>3, <2>2 DEF OpenProfile
  <2>4. QED BY <2>2, <2>3 DEF CleanEntries, OpenProfile, database, statics, running
<1>9. FlawsKnown'
  BY DEF IInv, FlawsKnown, Flaw, OpenProfile, database, statics, running
<1>10. QED BY <1>5, <1>6, <1>7, <1>8, <1>9 DEF IInv

\* While canEdit is true, a reload asks for the user of now.
LEMMA ReloadInv ==
  ASSUME IInv, Reload
  PROVE  IInv'
BY DEF IInv, TypeOK, Sessions, NewAccounts, Unknown, CleanNames, CleanEntries, FlawsKnown,
       Clean, Flaw, Reload, Content, database, shown, statics, running, history

\* The answer shows the record as it is.
LEMMA FetchRecordInv ==
  ASSUME IInv, NEW ask \in asks, FetchRecord(ask)
  PROVE  IInv'
<1> DEFINE r == record[ask.of]
<1>1. CASE r # NoRecord /\ ~r.image /\ Crash
  BY <1>1, EndInv DEF Crash
<1>2. CASE /\ r = NoRecord
           /\ asks' \in StillAsked(ask)
           /\ UNCHANGED <<database, session, screen, statics, tab, sheet, loads, signUps,
                          uploads, crashed>>
  BY <1>2 DEF IInv, TypeOK, Sessions, NewAccounts, Unknown, CleanNames, CleanEntries,
              FlawsKnown, Clean, Flaw, StillAsked, database, shown, statics, running, history
<1>3. CASE /\ r # NoRecord /\ r.image
           /\ asks' \in StillAsked(ask)
           /\ user' = IF r.uid THEN ask.of ELSE None
           /\ tab' = IF ask.tab THEN [tab EXCEPT !.name = Text(r.name)] ELSE tab
           /\ UNCHANGED <<database, session, screen, canEdit, watching, history,
                          sheet, loads, signUps, uploads, crashed>>
  <2>1. ask.of \in User /\ asks' \subseteq asks
    BY <1>3 DEF IInv, TypeOK, Ask, StillAsked
  <2>2. r \in Record /\ Text(r.name) \in User \cup {Blank}
    BY <2>1 DEF IInv, TypeOK, Record, Text
  <2>3. /\ tab' \in Tab
        /\ tab'.open = tab.open /\ tab'.save = tab.save /\ tab'.txt = tab.txt
        /\ tab'.name \in {tab.name, Text(r.name)}
    BY <1>3, <2>2 DEF IInv, TypeOK, Tab
  <2>4. TypeOK'
    BY <1>3, <2>1, <2>3 DEF IInv, TypeOK, database, history
  <2>5. screen # "closed"
    BY DEF IInv, Sessions
  <2>6. Sessions' /\ NewAccounts'
    BY <1>3, <2>3, <2>5 DEF IInv, Sessions, NewAccounts, Unknown, database, history
  <2>7. CleanNames'
    <3>1. Text(r.name) \in {Blank, r.name}
      BY DEF Text
    <3>2. QED BY <1>3, <2>1, <2>3, <3>1 DEF IInv, CleanNames, Clean, database, history
  <2>8. CleanEntries'
    BY <1>3, <2>3 DEF IInv, CleanEntries, database, history
  <2>9. FlawsKnown'
    BY <1>3, <2>1 DEF IInv, FlawsKnown, Flaw, database, history
  <2>10. QED BY <2>4, <2>6, <2>7, <2>8, <2>9 DEF IInv
<1>4. QED BY <1>1, <1>2, <1>3 DEF FetchRecord

\* The answer shows the entries as they are.
LEMMA FetchContentInv ==
  ASSUME IInv, NEW u \in User, FetchContent(u)
  PROVE  IInv'
<1>1. TypeOK'
  BY DEF IInv, TypeOK, FetchContent, Tab, database, shown, statics, running, history
<1>2. Sessions'
  BY DEF IInv, TypeOK, Sessions, FetchContent, Tab, database, shown, statics, running,
         history
<1>3. NewAccounts'
  BY DEF IInv, TypeOK, Sessions, NewAccounts, Unknown, FetchContent, Tab, database, shown,
         statics, running, history
<1>4. CleanNames'
  BY DEF IInv, TypeOK, Sessions, NewAccounts, Unknown, CleanNames, Clean, FetchContent,
         Tab, database, shown, statics, running, history
<1>5. CleanEntries'
  BY DEF IInv, TypeOK, Sessions, CleanEntries, FetchContent, Tab, database, shown,
         statics, running, history
<1>6. FlawsKnown'
  BY DEF IInv, TypeOK, FlawsKnown, Flaw, FetchContent, Tab, database, shown, statics,
         running, history
<1>7. QED BY <1>1, <1>2, <1>3, <1>4, <1>5, <1>6 DEF IInv

\* What is typed is the own.
LEMMA EditInv ==
  ASSUME IInv, Edit
  PROVE  IInv'
<1>1. session \in User
  BY DEF IInv, TypeOK, Sessions, Edit
<1>2. /\ tab' \in Tab
      /\ tab'.open = tab.open /\ tab'.save = tab.save
      /\ tab'.name \in {tab.name, session} /\ tab'.txt \in {tab.txt, session}
  BY <1>1 DEF IInv, TypeOK, Tab, Edit
<1>3. TypeOK'
  BY <1>2 DEF IInv, TypeOK, Edit, database, statics, running
<1>4. Sessions' /\ NewAccounts'
  BY <1>2 DEF IInv, Sessions, NewAccounts, Unknown, Edit, database, statics, running
<1>5. CleanNames' /\ CleanEntries' /\ FlawsKnown'
  BY <1>2 DEF IInv, CleanNames, CleanEntries, FlawsKnown, Clean, Flaw, Edit, database,
              statics,
              running
<1>6. QED BY <1>3, <1>4, <1>5 DEF IInv

\* What the tab shows and what is stored agree after it is saved.
LEMMA SaveInv ==
  ASSUME IInv, Save
  PROVE  IInv'
<1>1. session \in User /\ session \in accounts /\ screen = "tabs"
  BY DEF IInv, TypeOK, Sessions, Save
<1>2. /\ \A v \in User \ {session} : record'[v] = record[v] /\ profile'[v] = profile[v]
      /\ record'[session].name \in {record[session].name, tab.name}
      /\ profile'[session] = profile[session] \/ profile'[session] = tab.txt
  BY <1>1 DEF IInv, TypeOK, Record, Save
<1>3. TypeOK'
  BY <1>1 DEF IInv, TypeOK, Save, Record, Tab, shown, statics, running
<1>4. Sessions' /\ NewAccounts'
  <2>1. Sessions'
    BY DEF IInv, Sessions, Save, shown, running
  <2>2. \A v \in User \ accounts' : Unknown(v)'
    BY <1>1, <1>2 DEF IInv, NewAccounts, Unknown, Save, shown, running
  <2>3. QED BY <1>1, <2>1, <2>2 DEF NewAccounts, Save
<1>5. CleanNames'
  <2>1. \A v \in signUps : Clean => record'[v].name \in {None, Blank, v}
    BY <1>1, <1>2 DEF IInv, TypeOK, Sessions, CleanNames, Save
  <2>2. QED BY <1>1, <1>2, <2>1 DEF IInv, CleanNames, Clean, Save, shown, running
<1>6. CleanEntries'
  BY <1>1, <1>2 DEF IInv, Sessions, CleanEntries, Save, shown, running
<1>7. FlawsKnown'
  BY DEF IInv, FlawsKnown, Save, running
<1>8. QED BY <1>3, <1>4, <1>5, <1>6, <1>7 DEF IInv

\* A photo is uploaded for the user of now.
LEMMA PickPhotoInv ==
  ASSUME IInv, PickPhoto
  PROVE  IInv'
BY DEF IInv, TypeOK, Sessions, NewAccounts, Unknown, CleanNames, CleanEntries, FlawsKnown,
       Clean, Flaw, PickPhoto, database, shown, statics, running, history

\* A photo changes no name.
LEMMA PhotoUploadedInv ==
  ASSUME IInv, NEW u \in User, PhotoUploaded(u)
  PROVE  IInv'
<1> DEFINE r == [record[u] EXCEPT !.image = TRUE]
<1>0. r \in Record /\ r.name = record[u].name
  BY DEF IInv, TypeOK, Record
<1>1. /\ record' \in [User -> Record]
      /\ \A v \in User : record'[v].name = record[v].name
      /\ \A v \in User \ {u} : record'[v] = record[v]
  <2>1. record' = record \/ record' = [record EXCEPT ![u] = r]
    BY DEF PhotoUploaded
  <2> HIDE DEF r
  <2>2. QED BY <1>0, <2>1 DEF IInv, TypeOK
<1>2. TypeOK'
  BY <1>1, Zenon DEF IInv, TypeOK, PhotoUploaded, shown, statics, running, Flaw
<1>3. Sessions' /\ NewAccounts'
  BY <1>1 DEF IInv, TypeOK, Sessions, NewAccounts, Unknown, PhotoUploaded, shown, running
<1>4. CleanNames'
  BY <1>1 DEF IInv, TypeOK, Sessions, CleanNames, Clean, PhotoUploaded, shown, running
<1>5. CleanEntries' /\ FlawsKnown'
  BY DEF IInv, CleanEntries, FlawsKnown, PhotoUploaded, shown, running
<1>6. QED BY <1>2, <1>3, <1>4, <1>5 DEF IInv

\* A friend whose profile is opened has a uid.
LEMMA SelectFriendInv ==
  ASSUME IInv, NEW b \in User, SelectFriend(b)
  PROVE  IInv'
<1>1. TypeOK'
  <2>1. [tab |-> FALSE, of |-> b] \in Ask
    BY DEF Ask
  <2>2. asks' \subseteq Ask
    BY <2>1 DEF IInv, TypeOK, SelectFriend
  <2>3. QED BY <2>2 DEF IInv, TypeOK, SelectFriend, database
<1>2. Sessions' /\ NewAccounts'
  BY DEF IInv, Sessions, NewAccounts, Unknown, SelectFriend, database
<1>3. CleanNames' /\ CleanEntries'
  BY DEF CleanNames, CleanEntries, Clean, SelectFriend
<1>4. FlawsKnown'
  BY DEF IInv, FlawsKnown, Flaw, SelectFriend, database
<1>5. QED BY <1>1, <1>2, <1>3, <1>4 DEF IInv

\* Closing the sheet changes nothing else.
LEMMA CloseSheetInv ==
  ASSUME IInv, CloseSheet
  PROVE  IInv'
BY DEF IInv, TypeOK, Sessions, NewAccounts, Unknown, CleanNames, CleanEntries, FlawsKnown,
       Clean, Flaw, CloseSheet, database, shown, statics, running, history

\* The friends list makes profiles editable again.
LEMMA FriendsAppearInv ==
  ASSUME IInv, FriendsAppear
  PROVE  IInv'
BY DEF IInv, TypeOK, Sessions, NewAccounts, Unknown, CleanNames, CleanEntries, FlawsKnown,
       Clean, Flaw, FriendsAppear, database, shown, statics, running, history

\* After a logout the process is not clean any more.
LEMMA LogoutInv ==
  ASSUME IInv, Logout
  PROVE  IInv'
<1>1. TypeOK'
  <2> DEFINE old(a) == [a EXCEPT !.tab = FALSE]
  <2>0. \A a \in Ask : old(a) \in Ask
    BY DEF Ask
  <2>1. asks' \subseteq Ask
    <3>1. asks' = {old(a) : a \in asks} /\ asks \subseteq Ask
      BY DEF IInv, TypeOK, Logout
    <3> HIDE DEF old
    <3>2. QED BY <2>0, <3>1
  <2>2. NoTab \in Tab
    BY DEF NoTab, Tab
  <2>3. QED BY <2>1, <2>2 DEF IInv, TypeOK, Logout, database
<1>2. Sessions' /\ NewAccounts'
  BY DEF IInv, TypeOK, Sessions, NewAccounts, Unknown, Logout, NoTab, database
<1>3. CleanNames' /\ CleanEntries'
  BY DEF IInv, CleanNames, CleanEntries, Clean, Logout, NoTab
<1>4. FlawsKnown'
  BY DEF IInv, FlawsKnown, Flaw, Logout, database
<1>5. QED BY <1>1, <1>2, <1>3, <1>4 DEF IInv


-----------------------------------------------------------------------------
\* Every step keeps the invariant.
LEMMA StepInv ==
  ASSUME IInv, [Next]_vars
  PROVE  IInv'
<1>1. CASE Process
  BY <1>1, EndInv, LaunchInv DEF Process, Kill, UidMissing, NobodyToShow, Crash
<1>2. CASE SignIn
  BY <1>2, CreateAccountInv, SignUpWritesInv, SignUpFailsInv, LoginInv, SignUpInv,
     OpenMatchInv, LogoutInv DEF SignIn
<1>3. CASE Profile
  BY <1>3, OpenProfileInv, ReloadInv, EditInv, SaveInv, PickPhotoInv, CloseSheetInv,
     FriendsAppearInv, FetchRecordInv, FetchContentInv, PhotoUploadedInv, SelectFriendInv
  DEF Profile
<1>4. CASE UNCHANGED vars
  BY <1>4 DEF vars, IInv, TypeOK, Sessions, NewAccounts, Unknown, CleanNames, CleanEntries,
              FlawsKnown, Clean, Flaw
<1>5. QED BY <1>1, <1>2, <1>3, <1>4 DEF Next

\* The invariant holds in every state, for any number of users.
THEOREM Invariance == Spec => []IInv
BY InitInv, StepInv, PTL DEF Spec

\* Every variable keeps its type.
THEOREM TypeCorrect == Spec => []TypeOK
<1>1. IInv => TypeOK
  BY DEF IInv
<1>2. QED BY <1>1, Invariance, PTL

\* Actions that leave the database alone, and those that do not.
LEMMA WhoWrites ==
  ASSUME [Next]_vars
  PROVE  \/ UNCHANGED <<record, profile>>
         \/ \E u \in User : SignUpWrites(u) \/ PhotoUploaded(u)
         \/ Save
<1>1. CASE Process
  BY <1>1 DEF Process, Kill, UidMissing, NobodyToShow, Crash, End, Launch, database
<1>2. CASE SignIn
  BY <1>2 DEF SignIn, CreateAccount, SignUpFails, Login, SignUp, OpenMatch, Logout, database
<1>3. CASE Profile
  BY <1>3 DEF Profile, OpenProfile, Reload, Edit, PickPhoto, CloseSheet, FriendsAppear,
              FetchRecord, FetchContent, SelectFriend, Crash, End, database
<1>4. QED BY <1>1, <1>2, <1>3 DEF Next, vars

\* In a process in which no friend was looked at and nobody logged out, names only
\* change to the user's own or to nothing.
THEOREM NamesAreOwn == Spec => NameKept
<1>1. ASSUME IInv, [Next]_vars, ~looked, ~left, NEW u \in User
      PROVE  record'[u].name \in {record[u].name, u, Blank}
  <2>1. CASE UNCHANGED <<record, profile>>
    BY <2>1
  <2>2. CASE \E v \in User : SignUpWrites(v)
    BY <2>2, <1>1 DEF IInv, TypeOK, SignUpWrites, Complete
  <2>3. CASE \E v \in User : PhotoUploaded(v)
    BY <2>3, <1>1 DEF IInv, TypeOK, PhotoUploaded, Record
  <2>4. CASE Save
    <3>1. session \in User /\ tab.name \in {Blank, session, record[session].name}
      BY <2>4, <1>1 DEF IInv, TypeOK, Sessions, CleanNames, Clean, Save
    <3>2. QED BY <2>4, <3>1, <1>1 DEF IInv, TypeOK, Record, Save
  <2>5. QED BY <1>1, <2>1, <2>2, <2>3, <2>4, WhoWrites
<1>2. IInv /\ [Next]_vars =>
        [~looked /\ ~left => \A u \in User : record'[u].name \in {record[u].name, u, Blank}]_vars
  BY <1>1
<1>3. QED BY <1>2, Invariance, PTL DEF Spec, NameKept

\* Unless a friend was looked at, entries only change to the user's own.
THEOREM EntriesAreOwn == Spec => EntriesKept
<1>1. ASSUME IInv, [Next]_vars, ~looked, NEW u \in User
      PROVE  profile'[u] \in {profile[u], u}
  <2>1. CASE UNCHANGED <<record, profile>>
    BY <2>1
  <2>2. CASE \E v \in User : SignUpWrites(v) \/ PhotoUploaded(v)
    BY <2>2 DEF SignUpWrites, PhotoUploaded
  <2>3. CASE Save
    <3>1. session \in User /\ tab.txt \in {None, session, profile[session]}
      BY <2>3, <1>1 DEF IInv, TypeOK, Sessions, CleanEntries, Save
    <3>2. QED BY <2>3, <3>1, <1>1 DEF IInv, TypeOK, Save
  <2>4. QED BY <1>1, <2>1, <2>2, <2>3, WhoWrites
<1>2. IInv /\ [Next]_vars =>
        [~looked => \A u \in User : profile'[u] \in {profile[u], u}]_vars
  BY <1>1
<1>3. QED BY <1>2, Invariance, PTL DEF Spec, EntriesKept

\* Nothing is ever taken away from a complete record.
THEOREM RecordsStay == Spec => RecordStays
<1>1. ASSUME IInv, [Next]_vars, NEW u \in User, record[u].uid /\ record[u].image
      PROVE  record'[u].uid /\ record'[u].image
  <2>1. CASE UNCHANGED <<record, profile>>
    BY <2>1, <1>1
  <2>2. CASE \E v \in User : SignUpWrites(v)
    BY <2>2, <1>1 DEF IInv, TypeOK, SignUpWrites, Complete
  <2>3. CASE \E v \in User : PhotoUploaded(v)
    BY <2>3, <1>1 DEF IInv, TypeOK, PhotoUploaded, Record
  <2>4. CASE Save
    BY <2>4, <1>1 DEF IInv, TypeOK, Record, Save
  <2>5. QED BY <1>1, <2>1, <2>2, <2>3, <2>4, WhoWrites
<1>2. IInv /\ [Next]_vars =>
        [\A u \in User : record[u].uid /\ record[u].image =>
           record'[u].uid /\ record'[u].image]_vars
  BY <1>1
<1>3. QED BY <1>2, Invariance, PTL DEF Spec, RecordStays

\* As long as every record is complete the program does not stop by itself.
THEOREM CrashesAreExplained == Spec => CrashExplained
<1>1. ASSUME IInv, [Next]_vars, ~crashed, crashed' PROVE flawed
  <2>1. CASE UidMissing
    BY <2>1, <1>1 DEF IInv, FlawsKnown, Flaw, UidMissing
  <2>2. CASE NobodyToShow
    <3>1. session # None
      BY <2>2, <1>1 DEF IInv, Sessions, NobodyToShow
    <3>2. ~canEdit /\ user = None
      BY <2>2, <3>1 DEF NobodyToShow, Content
    <3>3. QED BY <3>2, <1>1 DEF IInv, FlawsKnown
  <2>3. CASE \E a \in asks : FetchRecord(a)
    <3>1. PICK a \in asks : FetchRecord(a)
      BY <2>3
    <3>2. a.of \in User
      BY <1>1 DEF IInv, TypeOK, Ask
    <3>3. record[a.of] # NoRecord /\ ~record[a.of].image
      BY <3>1, <1>1 DEF FetchRecord
    <3>4. QED BY <3>2, <3>3, <1>1 DEF IInv, FlawsKnown, Flaw
  <2>4. CASE Kill \/ Launch
    BY <2>4, <1>1 DEF Kill, Launch
  <2>5. CASE SignIn
    BY <2>5, <1>1 DEF SignIn, CreateAccount, SignUpWrites, SignUpFails, Login, SignUp,
                      OpenMatch,
                      Logout
  <2>6. CASE /\ Profile
             /\ ~\E a \in asks : FetchRecord(a)
    BY <2>6, <1>1 DEF Profile, OpenProfile, Reload, Edit, Save, PickPhoto, CloseSheet,
                      FriendsAppear, FetchContent, PhotoUploaded, SelectFriend
  <2>7. CASE UNCHANGED vars
    BY <2>7, <1>1 DEF vars
  <2>8. QED BY <1>1, <2>1, <2>2, <2>3, <2>4, <2>5, <2>6, <2>7 DEF Next, Process
<1>2. QED BY <1>1, Invariance, PTL DEF Spec, CrashExplained

=============================================================================
