---------------------------- MODULE BubbleProofs ----------------------------
(***************************************************************************)
(* Proofs about the app's own code for any set of strings, any documents   *)
(* and any number of users.  TrapsOnlyOnMissingName and                    *)
(* ReadsBackTheDocument speak of the last call and of the dictionary its   *)
(* user was built from; they are inductive only together with              *)
(* HoldsItsDocument, which carries that dictionary from the initializer to *)
(* the getters.                                                            *)
(***************************************************************************)
EXTENDS Bubble, TLAPS

(* Steps of AppDelegate leave the users and the last call alone. *)
LEMMA MovesStep ==
    ASSUME IInv, UNCHANGED <<users, built, last>>,
           app \in {"notRunning", "inactive", "active", "background"},
           app' \in {"notRunning", "inactive", "active", "background"}
    PROVE  IInv'
<1>1. TypeOK'
  BY DEF IInv, TypeOK
<1>2. HoldsItsDocument' /\ LastIsAlive'
  BY DEF IInv, HoldsItsDocument, LastIsAlive
<1>3. TrapsOnlyOnMissingName'
  BY DEF TrapsOnlyOnMissingName
<1>4. ReadsBackTheDocument'
  BY DEF IInv, ReadsBackTheDocument
<1> QED BY <1>1, <1>2, <1>3, <1>4 DEF IInv

(* The User a call is made on, and the document it was built from. *)
LEMMA UserOf ==
    ASSUME IInv, NEW u \in 1..Len(users)
    PROVE  /\ u \in 1..Len(built) /\ u \in 1..MaxUsers
           /\ built[u].dict \in Dictionaries /\ built[u].id \in Strings
           /\ users[u] \in [Keys \cup {"userID"} -> Strings \cup {Nil}]
           /\ users[u]["userID"] = built[u].id
           /\ \A k \in Keys : users[u][k] = AsString(built[u].dict[k])
<1>1. u \in 1..Len(built) /\ u \in 1..MaxUsers
  BY ConstantsAssumption DEF IInv, TypeOK
<1>2. users[u] \in [Keys \cup {"userID"} -> Strings \cup {Nil}]
  <2> DEFINE Objects == [Keys \cup {"userID"} -> Strings \cup {Nil}]
  <2>1. users \in Seq(Objects)
    BY DEF IInv, TypeOK
  <2> HIDE DEF Objects
  <2>2. users[u] \in Objects
    BY <2>1
  <2> QED BY <2>2 DEF Objects
<1>3. built[u] \in [dict : Dictionaries, id : Strings]
  <2> DEFINE Docs == [dict : Dictionaries, id : Strings]
  <2>1. built \in Seq(Docs)
    BY DEF IInv, TypeOK
  <2> HIDE DEF Docs
  <2>2. built[u] \in Docs
    BY <1>1, <2>1
  <2> QED BY <2>2 DEF Docs
<1>4. /\ users[u]["userID"] = built[u].id
      /\ \A k \in Keys : users[u][k] = AsString(built[u].dict[k])
  BY DEF IInv, HoldsItsDocument
<1> QED BY <1>1, <1>2, <1>3, <1>4

(* Every step keeps IInv. *)
LEMMA Step == IInv /\ [Next]_vars => IInv'
<1> USE ConstantsAssumption DEF Nil
<1>1. ASSUME IInv, \/ DidFinishLaunching \/ DidBecomeActive \/ WillResignActive
                   \/ DidEnterBackground \/ WillEnterForeground
      PROVE  IInv'
  <2>1. PICK from, to :
          /\ Moves(from, to)
          /\ from \subseteq {"notRunning", "inactive", "active", "background"}
          /\ to \in {"notRunning", "inactive", "active", "background"}
    BY <1>1 DEF DidFinishLaunching, DidBecomeActive, WillResignActive,
                DidEnterBackground, WillEnterForeground
  <2> QED BY <1>1, <2>1, MovesStep DEF Moves
<1>2. ASSUME IInv, WillTerminate
      PROVE  IInv'
  BY <1>2 DEF IInv, TypeOK, WillTerminate, None, HoldsItsDocument, LastIsAlive,
              TrapsOnlyOnMissingName, ReadsBackTheDocument
<1>3. ASSUME IInv, NEW dict \in Dictionaries, NEW id \in Strings,
             InitUser(dict, id)
      PROVE  IInv'
  <2> DEFINE user == [key \in Keys \cup {"userID"} |->
                         IF key = "userID" THEN id ELSE AsString(dict[key])]
             doc  == [dict |-> dict, id |-> id]
  <2>1. /\ user \in [Keys \cup {"userID"} -> Strings \cup {Nil}]
        /\ user["userID"] = id
        /\ \A key \in Keys : user[key] = AsString(dict[key])
    BY DEF AsString, Keys, Picture
  <2>2. doc \in [dict : Dictionaries, id : Strings]
    OBVIOUS
  <2>3. /\ users' = Append(users, user) /\ built' = Append(built, doc)
        /\ UNCHANGED <<app, last>> /\ Len(users) < MaxUsers
        /\ app # "trapped"
    BY <1>3 DEF InitUser, Running
  <2> HIDE DEF user, doc
  <2>4. TypeOK'
    BY <1>3, <2>1, <2>2, <2>3 DEF IInv, TypeOK
  <2>5. \A u \in 1..Len(built) : users'[u] = users[u] /\ built'[u] = built[u]
    BY <1>3, <2>3 DEF IInv, TypeOK
  <2>6. /\ Len(users') = Len(users) + 1 /\ Len(built') = Len(built) + 1
        /\ users'[Len(users')] = user /\ built'[Len(users')] = doc
    BY <1>3, <2>3 DEF IInv, TypeOK
  <2>7. HoldsItsDocument'
    BY <1>3, <2>1, <2>5, <2>6, SMTT(30) DEF IInv, TypeOK, HoldsItsDocument, doc
  <2>8. LastIsAlive'
    BY <1>3, <2>3, <2>6 DEF IInv, TypeOK, LastIsAlive
  <2>9. TrapsOnlyOnMissingName'
    BY <2>3 DEF TrapsOnlyOnMissingName
  <2>10. ReadsBackTheDocument'
    BY <1>3, <2>3, <2>5 DEF IInv, TypeOK, LastIsAlive, ReadsBackTheDocument
  <2> QED BY <2>4, <2>7, <2>8, <2>9, <2>10 DEF IInv
<1>4. ASSUME IInv, NEW u \in 1..Len(users), NEW key \in Keys \cup {"userID"},
             Get(u, key)
      PROVE  IInv'
  <2>1. u \in 1..Len(built) /\ u \in 1..MaxUsers
    BY <1>4, UserOf
  <2>2. /\ built[u].dict \in Dictionaries /\ built[u].id \in Strings
        /\ users[u] \in [Keys \cup {"userID"} -> Strings \cup {Nil}]
        /\ users[u]["userID"] = built[u].id
        /\ \A k \in Keys : users[u][k] = AsString(built[u].dict[k])
    BY <1>4, UserOf
  <2>3. PICK value \in Strings \cup {Nil} :
          /\ value = IF key = Picture THEN ProfilePictureURL(u) ELSE users[u][key]
          /\ last' = [u |-> u, call |-> key, value |-> value]
          /\ app' = IF value = Nil THEN "trapped" ELSE app
    BY <1>4, <2>2 DEF Get, ProfilePictureURL, Keys
  <2>4. UNCHANGED <<users, built>> /\ Running
    BY <1>4 DEF Get
  <2>5. TypeOK'
    BY <1>4, <2>1, <2>3, <2>4 DEF IInv, TypeOK, Running
  <2>6. HoldsItsDocument'
    BY <1>4, <2>4 DEF IInv, HoldsItsDocument
  <2>7. LastIsAlive'
    BY <2>1, <2>3, <2>4 DEF LastIsAlive, Keys, Picture
  <2>8. /\ key = Picture => value # Nil
        /\ key = "userID" => value = built[u].id /\ value # Nil
        /\ key \in Names => value = AsString(built[u].dict[key])
    BY <2>2, <2>3 DEF ProfilePictureURL, Keys, Picture
  <2>9. TrapsOnlyOnMissingName'
    BY <2>2, <2>3, <2>4, <2>8 DEF TrapsOnlyOnMissingName, Running, AsString, Keys
  <2>10. ReadsBackTheDocument'
    BY <2>2, <2>3, <2>4, <2>8
       DEF ReadsBackTheDocument, ProfilePictureURL, AsString, Keys
  <2> QED BY <2>5, <2>6, <2>7, <2>9, <2>10 DEF IInv
<1>5. ASSUME IInv, NEW u \in 1..Len(users), GetProfilePicture(u)
      PROVE  IInv'
  <2>1. u \in 1..Len(built) /\ u \in 1..MaxUsers
    BY <1>5, UserOf
  <2>2. /\ built[u].dict \in Dictionaries
        /\ users[u] \in [Keys \cup {"userID"} -> Strings \cup {Nil}]
        /\ users[u][Picture] = AsString(built[u].dict[Picture])
    BY <1>5, UserOf DEF Keys
  <2>3. PICK value \in Strings \cup {Nil} :
          /\ value # Nil => /\ value = built[u].dict[Picture]
                            /\ value # Empty
          /\ last' = [u |-> u, call |-> "getProfilePicture", value |-> value]
    BY <1>5, <2>2 DEF GetProfilePicture, HasURL, ProfilePictureURL, AsString
  <2>4. UNCHANGED <<app, users, built>> /\ Running
    BY <1>5 DEF GetProfilePicture
  <2>5. TypeOK'
    BY <1>5, <2>1, <2>3, <2>4 DEF IInv, TypeOK
  <2>6. HoldsItsDocument'
    BY <1>5, <2>4 DEF IInv, HoldsItsDocument
  <2>7. LastIsAlive'
    BY <2>1, <2>3, <2>4 DEF LastIsAlive
  <2>8. TrapsOnlyOnMissingName' /\ ReadsBackTheDocument'
    BY <2>3, <2>4 DEF TrapsOnlyOnMissingName, ReadsBackTheDocument, Running
  <2> QED BY <2>5, <2>6, <2>7, <2>8 DEF IInv
<1>6. ASSUME IInv, UNCHANGED vars
      PROVE  IInv'
  BY <1>6 DEF IInv, vars, TypeOK, HoldsItsDocument, LastIsAlive,
              TrapsOnlyOnMissingName, ReadsBackTheDocument
<1> QED
  BY <1>1, <1>2, <1>3, <1>4, <1>5, <1>6 DEF Next, CreateOrUpdateUser, GetUser

LEMMA Invariance == Spec => []IInv
<1>1. Init => IInv
  BY ConstantsAssumption
     DEF Init, None, Nil, IInv, TypeOK, HoldsItsDocument, LastIsAlive,
         TrapsOnlyOnMissingName, ReadsBackTheDocument
<1> QED BY <1>1, Step, PTL DEF Spec

(* The variables keep their types, and there are never more users than
   documents they were built from. *)
THEOREM TypeCorrect == Spec => []TypeOK
<1>1. IInv => TypeOK
  BY DEF IInv
<1> QED BY <1>1, Invariance, PTL

(* The app traps only on a name that the user's own document did not hold:
   User.swift's implicitly unwrapped properties, whatever the documents. *)
THEOREM TrapSafety == Spec => []TrapsOnlyOnMissingName
<1>1. IInv => TrapsOnlyOnMissingName
  BY DEF IInv
<1> QED BY <1>1, Invariance, PTL

(* Every value a getter or getProfilePicture works with is the document's own,
   "" for a missing picture URL apart. *)
THEOREM ReadBack == Spec => []ReadsBackTheDocument
<1>1. IInv => ReadsBackTheDocument
  BY DEF IInv
<1> QED BY <1>1, Invariance, PTL
=============================================================================
