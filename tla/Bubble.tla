------------------------------- MODULE Bubble -------------------------------
(***************************************************************************)
(* The app's own code: AppDelegate, the User model and DataService.        *)
(*                                                                         *)
(* A User is built from a dictionary that came from a database, where any  *)
(* key may be missing or hold something other than a String.  All its      *)
(* properties but one are implicitly unwrapped: reading one that was never *)
(* set traps and ends the process.  DataService's functions are stubs; the *)
(* only one with a condition looks at the user's picture URL.              *)
(***************************************************************************)
EXTENDS Naturals, Sequences

CONSTANTS
    Names,         \* the implicitly unwrapped properties the dictionary fills
    Strings,       \* the String values a dictionary may hold
    ValidURLs,     \* those that URL(string:) accepts
    Absent,        \* a key that is not in the dictionary
    NotAString,    \* a value that `as? String` rejects
    Empty,         \* ""
    MaxUsers       \* bound: User objects alive at once

ASSUME ConstantsAssumption ==
    /\ Empty \in Strings
    /\ ValidURLs \subseteq Strings \ {Empty}       \* URL(string: "") is nil
    /\ Absent \notin Strings /\ NotAString \notin Strings
    /\ Names \subseteq {"firstName", "lastName", "fullName", "email"}
    /\ MaxUsers \in Nat

Picture == "profilePictureURL"
Keys    == Names \cup {Picture}
Dictionaries == [Keys -> Strings \cup {Absent, NotAString}]
Nil == Absent                     \* Swift's nil: no value was ever assigned

VARIABLES
    app,       \* UIKit's state of the process
    users,     \* the User objects: their private variables
    built,     \* history: what each was built from
    last       \* the last call on a User: which one, what, and what came of it

vars == <<app, users, built, last>>

None == [u |-> 0, call |-> "none", value |-> Nil]

TypeOK ==
    /\ app \in {"notRunning", "inactive", "active", "background", "trapped"}
    /\ users \in Seq([Keys \cup {"userID"} -> Strings \cup {Nil}])
    /\ built \in Seq([dict : Dictionaries, id : Strings])
    /\ Len(users) = Len(built) /\ Len(users) <= MaxUsers
    /\ last \in [u : 0..MaxUsers,
                 call : Keys \cup {"userID", "getProfilePicture", "none"},
                 value : Strings \cup {Nil}]

Init == app = "notRunning" /\ users = <<>> /\ built = <<>> /\ last = None

-----------------------------------------------------------------------------
(* AppDelegate: the process comes and goes; every method body is empty *)

Moves(from, to) == app \in from /\ app' = to /\ UNCHANGED <<users, built, last>>

DidFinishLaunching  == Moves({"notRunning"}, "inactive")
DidBecomeActive     == Moves({"inactive"}, "active")
WillResignActive    == Moves({"active"}, "inactive")
DidEnterBackground  == Moves({"inactive"}, "background")
WillEnterForeground == Moves({"background"}, "inactive")

\* The process ends, by the user's hand, the system's, or after a trap; nothing
\* was saved.
WillTerminate ==
    /\ app \in {"inactive", "active", "background", "trapped"}
    /\ app' = "notRunning"
    /\ users' = <<>> /\ built' = <<>> /\ last' = None

Running == app \in {"inactive", "active", "background"}

-----------------------------------------------------------------------------
(* User *)

\* Variant: anything that is there is taken for a String.
CastAnything(v) == IF v = NotAString THEN Empty ELSE v

\* userDict[key] as? String
AsString(v) == IF v \in Strings THEN v ELSE Nil

\* init(userDict:userID:)
InitUser(dict, id) ==
    /\ Running
    /\ Len(users) < MaxUsers
    /\ users' = Append(users, [key \in Keys \cup {"userID"} |->
                                  IF key = "userID" THEN id ELSE AsString(dict[key])])
    /\ built' = Append(built, [dict |-> dict, id |-> id])
    /\ UNCHANGED <<app, last>>

\* Variant: the picture's URL is unwrapped like the rest.
UnwrapPicture(u) == users[u][Picture]

\* profilePictureURL: _profilePictureURL ?? ""
ProfilePictureURL(u) ==
    IF users[u][Picture] = Nil THEN Empty ELSE users[u][Picture]

\* A getter.  Unwrapping nil traps.
Get(u, key) ==
    LET value == IF key = Picture THEN ProfilePictureURL(u) ELSE users[u][key] IN
    /\ Running
    /\ last' = [u |-> u, call |-> key, value |-> value]
    /\ app' = IF value = Nil THEN "trapped" ELSE app
    /\ UNCHANGED <<users, built>>

-----------------------------------------------------------------------------
(* DataService *)

\* createOrUpdateUser and getUser: empty, the handler is dropped.
CreateOrUpdateUser == Running /\ UNCHANGED vars
GetUser            == Running /\ UNCHANGED vars

\* guard let url = URL(string: user.profilePictureURL)
HasURL(u) == ProfilePictureURL(u) \in ValidURLs

\* getProfilePicture: returns without a URL, and has nothing to do with one; it
\* never calls its handler.
GetProfilePicture(u) ==
    /\ Running
    /\ last' = [u |-> u, call |-> "getProfilePicture",
                value |-> IF HasURL(u) THEN ProfilePictureURL(u) ELSE Nil]
    /\ UNCHANGED <<app, users, built>>

-----------------------------------------------------------------------------
Next ==
    \/ DidFinishLaunching \/ DidBecomeActive \/ WillResignActive
    \/ DidEnterBackground \/ WillEnterForeground \/ WillTerminate
    \/ \E dict \in Dictionaries, id \in Strings : InitUser(dict, id)
    \/ \E u \in 1..Len(users) : \/ \E key \in Keys \cup {"userID"} : Get(u, key)
                                \/ GetProfilePicture(u)
    \/ CreateOrUpdateUser
    \/ GetUser

Spec == Init /\ [][Next]_vars

-----------------------------------------------------------------------------
(* What is true throughout, and makes the properties below inductive *)

\* Every User holds what its own dictionary and ID said.
HoldsItsDocument ==
    \A u \in 1..Len(users) :
        /\ users[u]["userID"] = built[u].id
        /\ \A key \in Keys : users[u][key] = AsString(built[u].dict[key])

\* The last call was on a User that is still there.
LastIsAlive ==
    /\ last.call # "none" => last.u \in 1..Len(built)
    /\ last.call = "none" => last.value = Nil

\* The app traps only when a name or the e-mail is read of a user whose own
\* dictionary held no String under that very key: reading the ID or the picture's
\* URL never traps, and one user's incomplete document never harms another.
TrapsOnlyOnMissingName ==
    app = "trapped" => /\ last.call \in Names
                       /\ built[last.u].dict[last.call] \notin Strings

\* Whatever a getter returned is what that user's dictionary (or the userID
\* argument) held; "" only stands in for a missing picture URL, and never gets
\* past the guard of getProfilePicture.
ReadsBackTheDocument ==
    last.value # Nil =>
        LET dict == built[last.u].dict IN
        \/ last.call = "userID" /\ last.value = built[last.u].id
        \/ last.call \in Keys /\ last.value = dict[last.call]
        \/ last.call = Picture /\ last.value = Empty /\ dict[Picture] \notin Strings
        \/ last.call = "getProfilePicture" /\ last.value = dict[Picture]
           /\ last.value # Empty

IInv == /\ TypeOK /\ HoldsItsDocument /\ LastIsAlive
        /\ TrapsOnlyOnMissingName /\ ReadsBackTheDocument
=============================================================================
