------------------------------ MODULE Accounts ------------------------------
(***************************************************************************)
(* Accounts and profiles of JMatch, as one device sees them: the sign-up,  *)
(* whose record of the user is written by a chain of uploads that nobody   *)
(* waits for, the login, and the profile controller, which serves the own  *)
(* profile (a tab) and those of friends (a sheet) and keeps the user it    *)
(* shows, and whether he may be edited, in static properties that outlive  *)
(* the sheet, the tab and the login.                                       *)
(*                                                                         *)
(* A name or a profile entry is represented by the user who gave it; the   *)
(* four entries of a profile are alike, and one stands for them.  A write  *)
(* is applied or refused at once: an app is killed between writes only.    *)
(***************************************************************************)
EXTENDS Integers, FiniteSets

CONSTANTS
  User,
  Old,         \* those who have signed up before
  None,        \* nobody, and nothing
  Blank,       \* the empty text
  MaxUploads,  \* bound: sign-ups and photos that upload at a time
  MaxReads     \* bound: a read starts while fewer are under way

ASSUME OldAssumption == Old \subseteq User
ASSUME BoundsAssumption == MaxUploads \in Nat /\ MaxReads \in Nat
ASSUME NoneAssumption == None \notin User /\ Blank \notin User /\ None # Blank

VARIABLES
  accounts,  \* the users who have an account
  session,   \* Auth.currentUser, which outlives the process
  record,    \* users/<uid>
  profile,   \* profile/<uid>
  screen,    \* what the process shows
  user,      \* the static ProfileViewController.user, by its uid
  canEdit,   \* the static ProfileViewController.canEdit
  tab,       \* the profile controller of the tab bar
  sheet,     \* a friend's profile is presented
  asks,      \* reads of a record under way: for the tab, or for another controller
  loads,     \* reads of a profile's entries under way, for the tab
  signUps,   \* users whose sign-up is still uploading
  uploads,   \* users whose new photo is still uploading
  watching,  \* the match controller observes the records
  looked,    \* history: a friend's profile was opened in this process
  left,      \* history: somebody logged out in this process
  flawed,    \* history: in this process, some record lacked its uid or photo
  crashed    \* the program has stopped by itself

shown == <<tab, sheet, asks, loads>>
history == <<looked, left, flawed>>
running == <<user, canEdit, watching, looked, left>>
statics == <<running, flawed>>
database == <<accounts, record, profile>>
vars == <<accounts, session, record, profile, screen, user, canEdit, tab, sheet,
          asks, loads, signUps, uploads, watching, looked, left, flawed, crashed>>

Record == [uid : BOOLEAN, image : BOOLEAN, name : User \cup {Blank, None}]
NoRecord == [uid |-> FALSE, image |-> FALSE, name |-> None]
Complete(u) == [uid |-> TRUE, image |-> TRUE, name |-> u]
Flaw == \E u \in User : record[u] # NoRecord /\ ~(record[u].uid /\ record[u].image)

Tab == [open : BOOLEAN, save : BOOLEAN, name : User \cup {Blank}, txt : User \cup {None}]
NoTab == [open |-> FALSE, save |-> FALSE, name |-> Blank, txt |-> None]
Ask == [tab : BOOLEAN, of : User]

TypeOK ==
  /\ accounts \subseteq User
  /\ session \in User \cup {None}
  /\ record \in [User -> Record]
  /\ profile \in [User -> User \cup {None}]
  /\ screen \in {"closed", "welcome", "info", "tabs"}
  /\ user \in User \cup {None}
  /\ tab \in Tab
  /\ asks \subseteq Ask
  /\ loads \subseteq User
  /\ signUps \subseteq User
  /\ uploads \subseteq User
  /\ canEdit \in BOOLEAN /\ sheet \in BOOLEAN /\ watching \in BOOLEAN
  /\ looked \in BOOLEAN /\ left \in BOOLEAN /\ flawed \in BOOLEAN /\ crashed \in BOOLEAN

\* The app is opened and nobody is logged in.
Init ==
  /\ accounts = Old
  /\ session = None
  /\ record = [u \in User |-> IF u \in Old THEN Complete(u) ELSE NoRecord]
  /\ profile = [u \in User |-> IF u \in Old THEN u ELSE None]
  /\ screen = "welcome"
  /\ user = None /\ canEdit = TRUE
  /\ tab = NoTab /\ sheet = FALSE
  /\ asks = {} /\ loads = {}
  /\ signUps = {} /\ uploads = {}
  /\ watching = FALSE /\ looked = FALSE /\ left = FALSE
  /\ flawed = FALSE /\ crashed = FALSE

MayUpload == Cardinality(signUps) + Cardinality(uploads) < MaxUploads
MayRead == Cardinality(asks) + Cardinality(loads) < MaxReads

-----------------------------------------------------------------------------
(* The process                                                             *)

\* The process ends; what it holds in memory is lost.
End ==
  /\ screen' = "closed"
  /\ user' = None /\ canEdit' = TRUE
  /\ tab' = NoTab /\ sheet' = FALSE
  /\ asks' = {} /\ loads' = {}
  /\ signUps' = {} /\ uploads' = {}
  /\ watching' = FALSE
  /\ looked' = FALSE /\ left' = FALSE /\ flawed' = Flaw
  /\ UNCHANGED <<database, session>>

Kill ==
  /\ screen # "closed"
  /\ End
  /\ crashed' = FALSE

Crash == End /\ crashed' = TRUE

\* WelcomeViewController.viewDidLoad: a session that is still there is used.
Launch ==
  /\ screen = "closed"
  /\ screen' = IF session = None THEN "welcome" ELSE "tabs"
  /\ crashed' = FALSE
  /\ UNCHANGED <<database, session, statics, shown, signUps, uploads>>

-----------------------------------------------------------------------------
(* Sign-up and login                                                       *)

\* createUser also logs the new user in.
CreateAccount(u) ==
  /\ screen = "welcome"
  /\ u \notin accounts
  /\ accounts' = accounts \cup {u}
  /\ session' = u
  /\ screen' = "info"
  /\ UNCHANGED <<record, profile, statics, shown, signUps, uploads, crashed>>

\* SignUp: the photo starts to upload; "Success", and back to the first screen,
\* without waiting for it.
SignUp ==
  /\ screen = "info" /\ MayUpload
  /\ signUps' = signUps \cup {session}
  /\ screen' = "welcome"
  /\ UNCHANGED <<database, session, statics, shown, uploads, crashed>>

\* Mutated: the record is written for the user of now.
SignUpWritesCurrent(u) ==
  /\ u \in signUps
  /\ session # None
  /\ signUps' = signUps \ {u}
  /\ record' = [record EXCEPT ![session] = Complete(u)]
  /\ flawed' = (flawed \/ Flaw')
  /\ UNCHANGED <<accounts, session, profile, screen, running, shown, uploads, crashed>>

\* The upload is done, its URL known, and the record is written.
SignUpWrites(u) ==
  /\ u \in signUps
  /\ signUps' = signUps \ {u}
  /\ record' = [record EXCEPT ![u] = Complete(u)]
  /\ flawed' = (flawed \/ Flaw')
  /\ UNCHANGED <<accounts, session, profile, screen, running, shown, uploads, crashed>>

\* One of the three steps fails; the others do not take place.
SignUpFails(u) ==
  /\ u \in signUps
  /\ signUps' = signUps \ {u}
  /\ UNCHANGED <<database, session, screen, statics, shown, uploads, crashed>>

Login(u) ==
  /\ screen = "welcome"
  /\ u \in accounts
  /\ session' = u
  /\ screen' = "tabs"
  /\ UNCHANGED <<database, statics, shown, signUps, uploads, crashed>>

\* MatchViewController.fetchUser: observes every record from now on.
OpenMatch ==
  /\ screen = "tabs"
  /\ ~sheet
  /\ watching' = TRUE
  /\ UNCHANGED <<database, session, screen, user, canEdit, history, shown, signUps,
                 uploads, crashed>>

\* fetchUser unwraps the uid of every record that it is told of.
UidMissing ==
  /\ watching
  /\ \E u \in User : record[u] # NoRecord /\ ~record[u].uid
  /\ Crash

-----------------------------------------------------------------------------
(* The profile controller, in the tab and in the sheet                     *)

\* Mutated: as checkIfUserIsLoggedIn chooses.
ContentOfUser == IF user = None THEN session ELSE user

\* Whose entries observeProfileContent reads; the friend's uid is unwrapped.
Content == IF canEdit THEN session ELSE user

\* viewDidLoad: the buttons are fixed, and record and entries are asked for.
OpenProfile ==
  /\ screen = "tabs"
  /\ ~sheet /\ ~tab.open /\ MayRead
  /\ Content # None
  /\ tab' = [NoTab EXCEPT !.open = TRUE, !.save = canEdit]
  /\ asks' = asks \cup {[tab |-> TRUE, of |-> IF user = None THEN session ELSE user]}
  /\ loads' = loads \cup {Content}
  /\ UNCHANGED <<database, session, screen, statics, sheet, signUps, uploads, crashed>>

\* cellForRowAt asks again, by the statics of the moment, while there is nothing.
Reload ==
  /\ tab.open /\ ~sheet /\ MayRead
  /\ tab.txt = None
  /\ Content # None
  /\ loads' = loads \cup {Content}
  /\ UNCHANGED <<database, session, screen, statics, tab, sheet, asks, signUps, uploads,
                 crashed>>

\* The unwrapping fails: in viewDidLoad, or in a cell of the tab or of the sheet.
NobodyToShow ==
  /\ screen = "tabs"
  /\ sheet \/ tab.txt = None
  /\ Content = None
  /\ Crash

\* DisplayName.text = user.name, read back as text: nil is the empty text.
Text(name) == IF name = None THEN Blank ELSE name

\* The tab asks once, of the controllers that are gone several may have asked.
StillAsked(ask) == {asks \ {ask}, IF ask.tab THEN asks \ {ask} ELSE asks}

\* The answer of checkIfUserIsLoggedIn; the photo's address is unwrapped.
FetchRecord(ask) ==
  /\ ask \in asks
  /\ LET r == record[ask.of] IN
     \/ /\ r = NoRecord
        /\ asks' \in StillAsked(ask)
        /\ UNCHANGED <<database, session, screen, statics, tab, sheet, loads, signUps,
                       uploads, crashed>>
     \/ /\ r # NoRecord /\ ~r.image
        /\ Crash
     \/ /\ r # NoRecord /\ r.image
        /\ asks' \in StillAsked(ask)
        /\ user' = IF r.uid THEN ask.of ELSE None
        /\ tab' = IF ask.tab
                  THEN [tab EXCEPT !.name = Text(r.name)]
                  ELSE tab
        /\ UNCHANGED <<database, session, screen, canEdit, watching, history,
                       sheet, loads, signUps, uploads, crashed>>

\* The answer of observeProfileContent; several reads of one profile may be under way.
FetchContent(u) ==
  /\ u \in loads
  /\ loads' \in {loads, loads \ {u}}
  /\ tab' = IF profile[u] = None THEN tab ELSE [tab EXCEPT !.txt = profile[u]]
  /\ UNCHANGED <<database, session, screen, statics, sheet, asks, signUps, uploads,
                 crashed>>

\* The user types a name, or an entry, of his own.
Edit ==
  /\ tab.save /\ ~sheet
  /\ \/ tab' = [tab EXCEPT !.name = session]
     \/ tab' = [tab EXCEPT !.txt = session]
  /\ UNCHANGED <<database, session, screen, statics, sheet, asks, loads, signUps, uploads,
                 crashed>>

\* handleSave writes what the tab shows; either write may be refused.
Save ==
  /\ tab.save /\ ~sheet
  /\ record' \in {record, [record EXCEPT ![session].name = tab.name]}
  /\ profile' \in {profile, IF tab.txt = None THEN profile
                            ELSE [profile EXCEPT ![session] = tab.txt]}
  /\ flawed' = (flawed \/ Flaw')
  /\ UNCHANGED <<accounts, session, screen, running, shown, signUps, uploads, crashed>>

\* A new photo: uploaded, its URL asked for, written to the record of the user of now.
PickPhoto ==
  /\ tab.open /\ ~sheet /\ MayUpload
  /\ canEdit
  /\ uploads' = uploads \cup {session}
  /\ UNCHANGED <<database, session, screen, statics, shown, signUps, crashed>>

PhotoUploaded(u) ==
  /\ u \in uploads
  /\ uploads' = uploads \ {u}
  /\ record' \in {record, [record EXCEPT ![u].image = TRUE]}
  /\ flawed' = (flawed \/ Flaw')
  /\ UNCHANGED <<accounts, session, profile, screen, running, shown, signUps, crashed>>

\* A friend is selected: his profile is presented, not to be edited.
SelectFriend(b) ==
  /\ screen = "tabs"
  /\ ~sheet /\ MayRead
  /\ b # session /\ record[b].uid
  /\ user' = b /\ canEdit' = FALSE
  /\ sheet' = TRUE
  /\ asks' = asks \cup {[tab |-> FALSE, of |-> b]}
  /\ looked' = TRUE
  /\ UNCHANGED <<database, session, screen, tab, loads, left, flawed, watching, signUps,
                 uploads, crashed>>

\* handleCancel, or the sheet is pulled down; the list below does not appear anew.
CloseSheet ==
  /\ sheet
  /\ sheet' = FALSE
  /\ UNCHANGED <<database, session, screen, statics, tab, asks, loads, signUps, uploads,
                 crashed>>

\* viewDidAppear of the friends list, when its tab is chosen.
FriendsAppear ==
  /\ screen = "tabs" /\ ~sheet
  /\ canEdit' = TRUE
  /\ UNCHANGED <<database, session, screen, user, history, watching, shown, signUps,
                 uploads, crashed>>

\* Mutated: the static user is reset, canEdit is not.
LogoutForgets ==
  /\ tab.save /\ ~sheet
  /\ session' \in {None, session}
  /\ screen' = "welcome"
  /\ user' = None
  /\ tab' = NoTab
  /\ asks' = {[a EXCEPT !.tab = FALSE] : a \in asks}
  /\ loads' = {}
  /\ left' = TRUE
  /\ UNCHANGED <<database, canEdit, watching, looked, flawed, sheet, signUps, uploads,
                 crashed>>

\* handleLogout, even if signOut fails: the tabs are gone, the statics and the reads
\* under way are not.
Logout ==
  /\ tab.save /\ ~sheet
  /\ session' \in {None, session}
  /\ screen' = "welcome"
  /\ tab' = NoTab
  /\ asks' = {[a EXCEPT !.tab = FALSE] : a \in asks}
  /\ loads' = {}
  /\ left' = TRUE
  /\ UNCHANGED <<database, user, canEdit, watching, looked, flawed, sheet, signUps, uploads,
                 crashed>>

-----------------------------------------------------------------------------
Process == Kill \/ Launch \/ UidMissing \/ NobodyToShow

SignIn ==
  \/ \E u \in User : CreateAccount(u) \/ SignUpWrites(u) \/ SignUpFails(u) \/ Login(u)
  \/ SignUp \/ OpenMatch \/ Logout

Profile ==
  \/ OpenProfile \/ Reload \/ Edit \/ Save \/ PickPhoto \/ CloseSheet \/ FriendsAppear
  \/ \E a \in asks : FetchRecord(a)
  \/ \E u \in User : FetchContent(u) \/ PhotoUploaded(u) \/ SelectFriend(u)

Next == Process \/ SignIn \/ Profile

Spec == Init /\ [][Next]_vars

-----------------------------------------------------------------------------
(* Properties                                                              *)

\* In a process in which no friend was looked at and nobody has logged out, a
\* name is only changed to the user's own, or to nothing (a Save before the
\* record has come).  The exception is needed: the static user makes the tab show,
\* and Save write, the name of the friend or of the user who was logged in before.
NameKept ==
  [][~looked /\ ~left =>
       \A u \in User : record'[u].name \in {record[u].name, u, Blank}]_vars

\* Unless a friend was looked at, what Save writes to a profile is the user's own.
\* With a friend's profile open before, an empty own profile is filled with the
\* friend's entries, as canEdit stays false until the friends list appears again.
EntriesKept ==
  [][~looked => \A u \in User : profile'[u] \in {profile[u], u}]_vars

\* Names, photos and sign-ups that arrive late never take anything away from a
\* complete record: its user can always be offered, liked and written to.
RecordStays ==
  [][\A u \in User : record[u].uid /\ record[u].image =>
       record'[u].uid /\ record'[u].image]_vars

\* As long as every record has been complete since the program was started, the
\* account, match and profile screens do not stop it: whatever comes late, whoever
\* logs in, the static user that observeProfileContent unwraps is there when canEdit
\* is false.
CrashExplained == [][~crashed /\ crashed' => flawed]_vars

\* fetchUser takes it for granted that every record has a uid.
UidKnown == \A u \in User : record[u] # NoRecord => record[u].uid

-----------------------------------------------------------------------------
(* The inductive invariant                                                 *)

Clean == ~looked /\ ~left

\* Who is logged in where, and that the tab is there only among the tabs.
Sessions ==
  /\ session # None => session \in accounts
  /\ screen \in {"info", "tabs"} => session # None
  /\ tab.open => screen = "tabs"
  /\ tab.save => tab.open
  /\ ~tab.open => loads = {}
  /\ sheet => screen = "tabs"
  /\ screen = "closed" => tab = NoTab /\ asks = {} /\ signUps = {} /\ user = None /\ canEdit

\* Before a sign-up begins to upload, nothing is known of the user.
Unknown(u) == record[u] = NoRecord /\ u \notin signUps /\ u \notin uploads

NewAccounts ==
  /\ \A u \in User \ accounts : Unknown(u)
  /\ screen = "info" => Unknown(session)

\* In a clean process the controller reads, and shows, the one user who is logged in.
CleanNames ==
  Clean =>
    /\ screen # "tabs" => user = None /\ asks = {}
    /\ user \in {None, session}
    /\ \A a \in asks : a.of = session
    /\ tab.open => tab.name \in {Blank, session, record[session].name}
    /\ \A u \in signUps : record[u].name \in {None, Blank, u}

CleanEntries ==
  ~looked =>
    /\ canEdit
    /\ loads \subseteq {session}
    /\ tab.open => tab.txt \in {None, session, profile[session]}

FlawsKnown ==
  ~flawed => ~Flaw /\ (canEdit \/ user # None)

IInv ==
  /\ TypeOK
  /\ Sessions
  /\ NewAccounts
  /\ CleanNames
  /\ CleanEntries
  /\ FlawsKnown

=============================================================================
