-------------------------- MODULE FBSDKLoginProofs --------------------------
(***************************************************************************)
(* The proofs about logging in with Facebook.  The invariant IInv of       *)
(* FBSDKLogin is kept by every step (NextInv): a handler that was called   *)
(* is in _handler only while it runs, so nothing can call it again; a page *)
(* is expected, being validated or used, never two of them; whoever's      *)
(* handler the manager holds, the expected page was opened for that login; *)
(* and every page that the SDK may yet open is accounted for.              *)
(*                                                                         *)
(* Most events find the stack empty and end in one way or another with     *)
(* the manager calling its handler or not (ManagerStep); they are proved   *)
(* by EventCore.  The frames that return are proved by PopManager.         *)
(***************************************************************************)
EXTENDS FBSDKLogin, FiniteSetTheorems, SequenceTheorems, TLAPS

(* The types that depend on the setting do not change. *)
LEMMA SameSetting ==
    ASSUME setting' = setting
    PROVE  /\ Users' = Users /\ Routes' = Routes /\ Tokens' = Tokens /\ Frames' = Frames
           /\ AllTokenURLs' = AllTokenURLs /\ AllURLs' = AllURLs
<1>1. Users' = Users /\ Routes' = Routes /\ Grants' = Grants
  BY DEF Users, Routes, Grants
<1>2. Tokens' = Tokens /\ Frames' = Frames
  BY <1>1 DEF Tokens, Frames
<1>3. AllTokenURLs' = AllTokenURLs
  <2>1. \A ch, url : url \in TokenURLs(ch)' <=> url \in TokenURLs(ch)
    BY <1>1 DEF TokenURLs, TokenURL
  <2>2. \A url : url \in AllTokenURLs' <=> \E ch \in Pages : url \in TokenURLs(ch)'
    BY Zenon DEF AllTokenURLs
  <2>3. \A url : url \in AllTokenURLs <=> \E ch \in Pages : url \in TokenURLs(ch)
    BY Zenon DEF AllTokenURLs
  <2> QED BY <2>1, <2>2, <2>3
<1>4. AllURLs' = AllURLs
  BY <1>3, Zenon DEF AllURLs
<1> QED BY <1>1, <1>2, <1>3, <1>4

(* Nil is neither a login nor a page, and 0 is no page. *)
LEMMA NilFacts ==
    /\ Nil \notin Logins /\ Nil \notin Pages /\ 0 \notin Pages
    /\ MaxLogins \in Nat /\ MaxChallenges \in Nat
BY ConstantsAssumption DEF Logins, Pages

(* What a URL may be. *)
LEMMA TokenURLFacts ==
    ASSUME NEW url \in AllTokenURLs
    PROVE  url.kind = "token" /\ url.ch \in Pages /\ url.user \in Users
           /\ url.known \in BOOLEAN
<1>1. PICK ch \in Pages, u \in Users, known \in BOOLEAN, grant \in Grants :
         url = TokenURL(ch, u, known, grant)
  BY DEF AllTokenURLs, TokenURLs
<1> QED BY <1>1 DEF TokenURL

(* The kinds of URLs, and which of them carry a token. *)
LEMMA URLFacts ==
    /\ \A url \in AllURLs :
          /\ url.kind \in {"token", "cancel", "error", "disabled", "foreign"}
          /\ url.kind = "token" => url \in AllTokenURLs
    /\ \A k \in {"cancel", "error", "disabled", "foreign"} :
          Bare(k) \in AllURLs /\ Bare(k).kind = k
    /\ ForeignURL \in AllURLs /\ ForeignURL.kind = "foreign"
    /\ AllTokenURLs \subseteq AllURLs
<1>1. \A k : Bare(k).kind = k
  BY DEF Bare
<1>2. \A k \in {"cancel", "error", "disabled", "foreign"} : Bare(k) \in AllURLs
  BY Zenon DEF AllURLs
<1>3. \A url \in AllURLs :
          url \in AllTokenURLs
          \/ \E k \in {"cancel", "error", "disabled", "foreign"} : url = Bare(k)
  BY Zenon DEF AllURLs
<1>4. \A url \in AllURLs :
          /\ url.kind \in {"token", "cancel", "error", "disabled", "foreign"}
          /\ url.kind = "token" => url \in AllTokenURLs
  BY <1>1, <1>3, TokenURLFacts
<1>5. AllTokenURLs \subseteq AllURLs
  BY Zenon DEF AllURLs
<1> QED BY <1>1, <1>2, <1>4, <1>5 DEF ForeignURL

(* An answer to a page is a URL, and promised a page if it is "service_disabled". *)
LEMMA AnswersFacts ==
    ASSUME NEW ch \in Pages, NEW url \in Answers(ch)
    PROVE  url \in AllURLs /\ url.kind # "foreign"
           /\ (url.kind = "disabled" => Spare > 0 /\ fallback = "none")
<1>1. CASE url \in TokenURLs(ch)
  <2>1. url \in AllTokenURLs
    BY <1>1 DEF AllTokenURLs
  <2> QED BY <2>1, TokenURLFacts, URLFacts
<1>2. CASE url \in {Bare("cancel"), Bare("error")}
  <2>1. url \in AllURLs /\ url.kind \in {"cancel", "error"}
    BY <1>2, URLFacts
  <2> QED BY <2>1
<1>3. CASE url = Bare("disabled") /\ Spare > 0 /\ fallback = "none"
  <2>1. url \in AllURLs /\ url.kind = "disabled"
    BY <1>3, URLFacts
  <2> QED BY <1>3, <2>1
<1> QED BY <1>1, <1>2, <1>3 DEF Answers

(* A frame put on a stack. *)
LEMMA Cons ==
    ASSUME NEW S, NEW s \in Seq(S), NEW f \in S
    PROVE  /\ <<f>> \o s \in Seq(S) /\ Len(<<f>> \o s) = Len(s) + 1
           /\ (<<f>> \o s)[1] = f /\ \A i \in 1..Len(s) : (<<f>> \o s)[i + 1] = s[i]
           /\ FramesOf(<<f>> \o s) = {f} \cup FramesOf(s)
           /\ <<f>> \o s # <<>> /\ Head(<<f>> \o s) = f
<1> DEFINE q == <<f>> \o s
<1>1. q \in Seq(S) /\ Len(q) = Len(s) + 1 /\ Len(s) \in Nat
      /\ q[1] = f /\ \A i \in 1..Len(s) : q[i + 1] = s[i]
  OBVIOUS
<1> HIDE DEF q
<1>2. \A i \in 1..Len(q) : i = 1 \/ (i - 1 \in 1..Len(s) /\ q[i] = s[i - 1])
  BY <1>1
<1>3. FramesOf(q) = {f} \cup FramesOf(s)
  <2>1. ASSUME NEW x \in FramesOf(q) PROVE x \in {f} \cup FramesOf(s)
    BY <1>1, <1>2, <2>1 DEF FramesOf
  <2>2. f \in FramesOf(q)
    BY <1>1 DEF FramesOf
  <2>3. ASSUME NEW x \in FramesOf(s) PROVE x \in FramesOf(q)
    <3>1. PICK i \in 1..Len(s) : x = s[i]
      BY <2>3 DEF FramesOf
    <3>2. i + 1 \in 1..Len(q) /\ q[i + 1] = x
      BY <1>1, <3>1
    <3> QED BY <3>2 DEF FramesOf
  <2> QED BY <2>1, <2>2, <2>3
<1>4. q # <<>> /\ Head(q) = f
  BY <1>1
<1> QED BY <1>1, <1>3, <1>4 DEF q

(* A frame taken off a stack. *)
LEMMA Uncons ==
    ASSUME NEW S, NEW s \in Seq(S), s # <<>>
    PROVE  /\ Tail(s) \in Seq(S) /\ Len(s) \in Nat \ {0} /\ Len(Tail(s)) = Len(s) - 1
           /\ \A i \in 1..Len(Tail(s)) : i + 1 \in 1..Len(s) /\ Tail(s)[i] = s[i + 1]
           /\ Head(s) = s[1] /\ Head(s) \in S
           /\ FramesOf(s) = {Head(s)} \cup FramesOf(Tail(s))
<1>1. /\ Tail(s) \in Seq(S) /\ Len(s) \in Nat \ {0} /\ Len(Tail(s)) = Len(s) - 1
      /\ \A i \in 1..Len(Tail(s)) : i + 1 \in 1..Len(s) /\ Tail(s)[i] = s[i + 1]
      /\ Head(s) = s[1] /\ Head(s) \in S
  OBVIOUS
<1> DEFINE t == Tail(s)
           h == Head(s)
<1> HIDE DEF t, h
<1>2. \A i \in 1..Len(s) : i = 1 \/ (i - 1 \in 1..Len(t) /\ t[i - 1] = s[i])
  BY <1>1 DEF t
<1>3. FramesOf(s) = {h} \cup FramesOf(t)
  <2>1. ASSUME NEW x \in FramesOf(s) PROVE x \in {h} \cup FramesOf(t)
    BY <1>1, <1>2, <2>1 DEF FramesOf, h
  <2>2. h \in FramesOf(s)
    BY <1>1 DEF FramesOf, h
  <2>3. ASSUME NEW x \in FramesOf(t) PROVE x \in FramesOf(s)
    BY <1>1, <2>3 DEF FramesOf, t
  <2> QED BY <2>1, <2>2, <2>3
<1> QED BY <1>1, <1>3 DEF t, h

(* A stack has finitely many frames. *)
LEMMA FramesFinite ==
    ASSUME NEW S, NEW s \in Seq(S)
    PROVE  IsFiniteSet(FramesOf(s))
<1>1. Len(s) \in Nat
  OBVIOUS
<1>2. IsFiniteSet(1..Len(s))
  BY <1>1, FS_Interval
<1>3. [i \in 1..Len(s) |-> s[i]] \in Surjection(1..Len(s), FramesOf(s))
  BY DEF Surjection, FramesOf
<1> QED BY <1>2, <1>3, FS_Surjection

-----------------------------------------------------------------------------
(* The manager.  An event starts with an empty stack, and leaves what its caller *)
(* does next, perhaps below the frame of a handler.                              *)

(* Frames that callers of the manager leave: a fallback once, or the end of a page. *)
Calm(s) ==
    /\ s \in Seq(Frames)
    /\ \A i \in 1..Len(s) : s[i].k \in {"relogin", "endSession", "endSafari"}
    /\ \A i, j \in 1..Len(s) : s[i].k = "relogin" /\ s[j].k = "relogin" => i = j

Relogins(s) == {f \in FramesOf(s) : f.k \in {"login", "relogin"}}

(* A page opened for the login whose handler the manager holds, or one that was being
   validated when that login began. *)
OwnPage(ch) ==
    handler # Nil => /\ ch \in 1..Len(pages)
                     /\ pages[ch].a = handler \/ ch \in reauthsAt[handler]

(* What an event does to the manager. *)
Tells(result, rest) ==
    InvokeHandler(result, rest) /\ (result.r = "token" => OwnPage(result.ch))
ManagerStep(rest) ==
    \/ \E st \in States : NoHandler(st, rest)
    \/ \E result \in Results : Tells(result, rest)

(* A frame and its fields. *)
LEMMA FrameType ==
    ASSUME NEW k \in {"handler", "login", "relogin", "launch", "endSession", "endSafari"},
           NEW a \in Logins \cup {Nil}, NEW route \in Routes \cup {Nil}
    PROVE  /\ Frame(k, a, route) \in Frames /\ Frame(k, a, route).k = k
           /\ Frame(k, a, route).a = a /\ Frame(k, a, route).route = route
BY DEF Frame, Frames

(* What the callers of the manager leave, and whether it holds a fallback. *)
LEMMA CalmThen ==
    /\ Calm(<<>>) /\ Relogins(<<>>) = {}
    /\ \A k \in {"relogin", "endSession", "endSafari"} : Calm(Then(k))
    /\ \A k \in {"endSession", "endSafari"} : Relogins(Then(k)) = {}
    /\ Relogins(Then("relogin")) = {Frame("relogin", Nil, Nil)}
<1>1. Calm(<<>>) /\ Relogins(<<>>) = {}
  BY DEF Calm, Relogins, FramesOf
<1>2. ASSUME NEW k \in {"relogin", "endSession", "endSafari"}
      PROVE  /\ Calm(Then(k)) /\ FramesOf(Then(k)) = {Frame(k, Nil, Nil)}
             /\ Frame(k, Nil, Nil).k = k
  <2> DEFINE f == Frame(k, Nil, Nil)
  <2>1. f \in Frames /\ f.k = k
    BY FrameType
  <2> HIDE DEF f
  <2>2. <<f>> \in Seq(Frames) /\ Len(<<f>>) = 1 /\ <<f>>[1] = f
    BY <2>1
  <2>3. Calm(<<f>>)
    BY <2>1, <2>2 DEF Calm
  <2>4. FramesOf(<<f>>) = {f}
    BY <2>2 DEF FramesOf
  <2> QED BY <2>1, <2>3, <2>4 DEF Then, f
<1> QED BY <1>1, <1>2 DEF Relogins

(* A fallback before what the caller does next. *)
LEMMA CalmCons ==
    ASSUME NEW s, Calm(s), Relogins(s) = {}
    PROVE  /\ Calm(Then("relogin") \o s)
           /\ Relogins(Then("relogin") \o s) = {Frame("relogin", Nil, Nil)}
<1> DEFINE f == Frame("relogin", Nil, Nil)
           q == <<f>> \o s
<1>1. f \in Frames /\ f.k = "relogin"
  BY FrameType
<1>2. s \in Seq(Frames) /\ \A i \in 1..Len(s) : s[i].k \in {"endSession", "endSafari"}
  BY DEF Calm, Relogins, FramesOf
<1> HIDE DEF f
<1>3. /\ q \in Seq(Frames) /\ Len(q) = Len(s) + 1 /\ Len(s) \in Nat
      /\ q[1] = f /\ \A i \in 1..Len(s) : q[i + 1] = s[i]
      /\ FramesOf(q) = {f} \cup FramesOf(s)
  BY <1>1, <1>2, Cons
<1> HIDE DEF q
<1>4. \A i \in 1..Len(q) : i = 1 \/ (i - 1 \in 1..Len(s) /\ q[i] = s[i - 1])
  BY <1>3
<1>5. Calm(q)
  BY <1>1, <1>2, <1>3, <1>4 DEF Calm
<1>6. Relogins(q) = {f}
  BY <1>1, <1>3 DEF Relogins
<1> QED BY <1>5, <1>6 DEF Then, f, q

(* Such frames hold no login, and at most one fallback. *)
LEMMA CalmOne ==
    ASSUME NEW s, Calm(s)
    PROVE  /\ IsFiniteSet(Relogins(s)) /\ Cardinality(Relogins(s)) \in {0, 1}
           /\ \A f \in FramesOf(s) : f.k # "login"
<1>1. \A f \in FramesOf(s) : f.k # "login"
  BY DEF Calm, FramesOf
<1>2. \A f, g \in Relogins(s) : f = g
  BY DEF Calm, FramesOf, Relogins
<1>3. CASE Relogins(s) = {}
  BY <1>1, <1>3, FS_EmptySet
<1>4. CASE Relogins(s) # {}
  <2>1. PICK f : Relogins(s) = {f}
    BY <1>2, <1>4
  <2>2. IsFiniteSet({f}) /\ Cardinality({f}) = 1
    BY FS_Singleton
  <2> QED BY <1>1, <2>1, <2>2
<1> QED BY <1>1, <1>3, <1>4

(* An event keeps the frames and the handler in order; its stack holds no login, and a
   fallback if rest does. *)
LEMMA EventManager ==
    ASSUME IInv, stack = <<>>, setting' = setting, nextAtt' = nextAtt,
           NEW rest, Calm(rest), ManagerStep(rest)
    PROVE  /\ MgrTypeOK' /\ FrameInv' /\ HandlerInv' /\ HandlerAtMostOnce'
           /\ LogInFrames' = Relogins(rest) /\ NativeFrames' = {}
           /\ handler' = handler
<1> USE NilFacts
<1>0. /\ state \in States /\ handler \in Logins \cup {Nil} /\ told \in [Logins -> Seq(Results)]
      /\ Frames' = Frames /\ rest \in Seq(Frames) /\ nextAtt \in Nat
  BY SameSetting DEF IInv, TypeOK, MgrTypeOK, UiTypeOK, Calm
<1>1. handler # Nil => told[handler] = <<>>
  BY DEF IInv, HandlerInv, Runs, Running
<1>2. handler # Nil => handler \in Logins /\ handler < nextAtt
  BY <1>0 DEF IInv, HandlerInv
<1>3. CASE \E st \in States : NoHandler(st, rest)
  <2>1. PICK st \in States : NoHandler(st, rest)
    BY <1>3
  <2>2. state' = st /\ handler' = handler /\ told' = told /\ stack' = rest
    BY <2>1 DEF NoHandler
  <2>3. MgrTypeOK'
    BY <1>0, <2>2 DEF MgrTypeOK
  <2>4. FrameInv'
    BY <2>2 DEF FrameInv, Calm
  <2>5. HandlerInv'
    BY <1>1, <2>2 DEF IInv, HandlerInv
  <2>6. HandlerAtMostOnce'
    BY <2>2 DEF IInv, HandlerAtMostOnce
  <2>7. LogInFrames' = Relogins(rest) /\ NativeFrames' = {}
    BY <2>2, CalmOne DEF LogInFrames, NativeFrames, Relogins
  <2> QED BY <2>2, <2>3, <2>4, <2>5, <2>6, <2>7
<1>4. CASE \E result \in Results : Tells(result, rest) /\ handler = Nil
  <2>1. PICK result \in Results : Tells(result, rest) /\ handler = Nil
    BY <1>4
  <2>2. state' = "Idle" /\ handler' = handler /\ told' = told /\ stack' = rest
    BY <2>1 DEF Tells, InvokeHandler
  <2>3. MgrTypeOK'
    BY <1>0, <2>2 DEF MgrTypeOK, States
  <2>4. FrameInv'
    BY <2>2 DEF FrameInv, Calm
  <2>5. HandlerInv'
    BY <1>1, <2>2 DEF IInv, HandlerInv
  <2>6. HandlerAtMostOnce'
    BY <2>2 DEF IInv, HandlerAtMostOnce
  <2>7. LogInFrames' = Relogins(rest) /\ NativeFrames' = {}
    BY <2>2, CalmOne DEF LogInFrames, NativeFrames, Relogins
  <2> QED BY <2>2, <2>3, <2>4, <2>5, <2>6, <2>7
<1>5. CASE \E result \in Results : Tells(result, rest) /\ handler # Nil
  <2>1. PICK result \in Results : Tells(result, rest) /\ handler # Nil
    BY <1>5
  <2> DEFINE f == Frame("handler", handler, Nil)
             q == <<f>> \o rest
  <2>2. /\ state' = "Idle" /\ handler' = handler
        /\ told' = [told EXCEPT ![handler] = Append(told[handler], result)]
        /\ stack' = q
    BY <2>1 DEF Tells, InvokeHandler
  <2>3. f \in Frames /\ f.k = "handler" /\ f.a = handler
    BY <1>0, FrameType
  <2> HIDE DEF f
  <2>4. /\ q \in Seq(Frames) /\ Len(q) = Len(rest) + 1 /\ Len(rest) \in Nat
        /\ q[1] = f /\ \A i \in 1..Len(rest) : q[i + 1] = rest[i]
        /\ FramesOf(q) = {f} \cup FramesOf(rest)
    BY <1>0, <2>3, Cons
  <2> HIDE DEF q
  <2>5. told' \in [Logins -> Seq(Results)] /\ Len(told'[handler]) = 1
        /\ \A a \in Logins : a # handler => told'[a] = told[a]
    <3>1. Append(told[handler], result) \in Seq(Results)
          /\ Len(Append(told[handler], result)) = 1
      BY <1>0, <1>1, <1>2, <2>1
    <3> QED BY <1>0, <1>2, <2>1, <2>2, <3>1
  <2>6. MgrTypeOK'
    BY <1>0, <2>2, <2>4, <2>5 DEF MgrTypeOK, States
  <2>7. \A i \in 1..Len(q) : i = 1 \/ (i - 1 \in 1..Len(rest) /\ q[i] = rest[i - 1])
    BY <2>4
  <2>8. FrameInv'
    <3>1. \A i \in 1..Len(q) : q[i].k \notin {"login", "launch"}
      BY <2>3, <2>4, <2>7 DEF Calm
    <3>2. \A i, j \in 1..Len(q) : q[i].k = "relogin" /\ q[j].k = "relogin" => i = j
      <4> SUFFICES ASSUME NEW i \in 1..Len(q), NEW j \in 1..Len(q),
                          q[i].k = "relogin", q[j].k = "relogin"
                   PROVE  i = j
        OBVIOUS
      <4>1. i # 1 /\ j # 1
        BY <2>3, <2>4
      <4>2. /\ i - 1 \in 1..Len(rest) /\ q[i] = rest[i - 1]
            /\ j - 1 \in 1..Len(rest) /\ q[j] = rest[j - 1]
        BY <2>7, <4>1
      <4>3. i - 1 = j - 1
        BY <4>2 DEF Calm
      <4> QED BY <2>4, <4>3
    <3> QED BY <2>2, <3>1, <3>2 DEF FrameInv
  <2>9. HandlerInv'
    <3>1. Runs(handler, 1)'
      BY <2>2, <2>3, <2>4 DEF Runs
    <3>2. \A a \in Logins : a >= nextAtt' => told'[a] = <<>>
      BY <1>0, <1>2, <2>1, <2>5 DEF IInv, HandlerInv, Logins
    <3> QED BY <1>0, <1>2, <2>1, <2>2, <3>1, <3>2 DEF HandlerInv
  <2>10. HandlerAtMostOnce'
    <3>0. \A a \in Logins : Len(told[a]) <= 1
      BY DEF IInv, HandlerAtMostOnce
    <3>1. ASSUME NEW a \in Logins PROVE Len(told'[a]) <= 1
      <4>1. CASE a = handler
        <5>1. told'[a] = told'[handler]
          BY <4>1
        <5>2. Len(told'[a]) = 1
          BY <2>5, <5>1
        <5> QED BY <5>2
      <4>2. CASE a # handler
        <5>1. told'[a] = told[a]
          BY <2>5, <4>2
        <5> QED BY <3>0, <5>1
      <4> QED BY <4>1, <4>2
    <3> QED BY <3>1 DEF HandlerAtMostOnce
  <2>11. LogInFrames' = Relogins(rest) /\ NativeFrames' = {}
    BY <2>2, <2>3, <2>4, CalmOne DEF LogInFrames, NativeFrames, Relogins
  <2> QED BY <2>2, <2>6, <2>8, <2>9, <2>10, <2>11
<1> QED BY <1>3, <1>4, <1>5 DEF ManagerStep

(* The tokens that handlers are told of. *)
LEMMA ToldKept ==
    ASSUME IInv, told' = told, pages' = pages, reauthsAt' = reauthsAt
    PROVE  ToldInv' /\ TokenFromOwnPage'
BY DEF IInv, ToldInv, TokenFromOwnPage

(* An event tells a handler only of a token that is its own. *)
LEMMA EventTold ==
    ASSUME IInv, stack = <<>>, pages' = pages, reauthsAt' = reauthsAt,
           NEW rest, ManagerStep(rest)
    PROVE  ToldInv' /\ TokenFromOwnPage'
<1>1. CASE told' = told
  BY <1>1, ToldKept
<1>2. CASE told' # told
  <2>0. PICK result \in Results : Tells(result, rest)
    BY <1>2 DEF ManagerStep, NoHandler
  <2>1. /\ handler # Nil /\ handler \in Logins /\ told \in [Logins -> Seq(Results)]
        /\ told' = [told EXCEPT ![handler] = Append(told[handler], result)]
        /\ result.r = "token" => OwnPage(result.ch)
    BY <1>2, <2>0 DEF IInv, TypeOK, MgrTypeOK, Tells, InvokeHandler
  <2>2. told[handler] = <<>>
    BY <2>1 DEF IInv, HandlerInv, Runs, Running
  <2>3. told'[handler] = <<result>>
    BY <2>1, <2>2
  <2>4. \A a \in Logins : a # handler => told'[a] = told[a]
    BY <2>1
  <2>5. <<result>>[1] = result /\ Len(<<result>>) = 1
    OBVIOUS
  <2>6. ASSUME NEW a \in Logins, NEW i \in 1..Len(told'[a]), told'[a][i].r = "token"
        PROVE  /\ told'[a][i].ch \in 1..Len(pages)
               /\ pages[told'[a][i].ch].a = a \/ told'[a][i].ch \in reauthsAt[a]
    <3>1. CASE a = handler
      <4>1. i = 1 /\ told'[a][i] = result
        BY <2>3, <2>5, <2>6, <3>1
      <4> QED BY <2>1, <2>6, <3>1, <4>1 DEF OwnPage
    <3>2. CASE a # handler
      <4>1. i \in 1..Len(told[a]) /\ told'[a][i] = told[a][i] /\ told[a][i].r = "token"
        BY <2>4, <2>6, <3>2
      <4> QED BY <4>1 DEF IInv, ToldInv, TokenFromOwnPage
    <3> QED BY <3>1, <3>2
  <2> QED BY <2>6 DEF ToldInv, TokenFromOwnPage
<1> QED BY <1>1, <1>2

-----------------------------------------------------------------------------
(* The challenge and the token                                             *)

(* What a handler is told. *)
LEMMA ToldFacts ==
    /\ \A r \in {"token", "cancelled", "error"}, ch \in Pages \cup {0} :
          Told(r, ch) \in Results /\ Told(r, ch).r = r /\ Told(r, ch).ch = ch
BY DEF Told, Results

KeyInv == ChallengeInv /\ ChallengeUsedOnce
KeyTypes ==
    /\ challenge \in Pages \cup {Nil}
    /\ token \in Tokens \cup {Nil} /\ cache \in Tokens \cup {Nil}
    /\ used \in [Pages -> Nat]
    /\ reauths \subseteq [was : Users, user : Users, ch : Pages, own : BOOLEAN]

(* completeAuthentication: uses the challenge up. *)
LEMMA Authenticates ==
    ASSUME IInv, NEW p, p.kind = "token" => p \in AllTokenURLs,
           NEW own \in BOOLEAN, NEW st \in States, NEW rest,
           UNCHANGED <<setting, pages, reauthsAt>>,
           CompleteAuthentication(p, own, st, rest)
    PROVE  /\ KeyTypes' /\ KeyInv'
           /\ ManagerStep(rest)
           /\ ~own => \E s \in States : NoHandler(s, rest)
<1> USE NilFacts
<1>0. /\ KeyTypes /\ KeyInv /\ Tokens' = Tokens /\ Users' = Users /\ state \in States
      /\ pages' = pages /\ reauthsAt' = reauthsAt
  BY SameSetting DEF IInv, TypeOK, KeyTypeOK, MgrTypeOK, KeyTypes, KeyInv
<1>1. challenge' = Nil
  BY DEF CompleteAuthentication, ClearChallenge
<1> DEFINE granted == p.kind = "token" /\ ~Failed(p) /\ RecentlyGranted(p, own)
<1>2. granted => /\ p.ch \in Pages /\ p.user \in Users /\ challenge = p.ch
                 /\ Expected(p.ch) /\ \A r \in reauths : r.ch # p.ch
  <2>1. granted => p.ch \in Pages /\ p.user \in Users /\ challenge = p.ch
    BY TokenURLFacts DEF Failed
  <2> QED BY <1>0, <2>1 DEF KeyInv, ChallengeInv
<1>3. CASE granted /\ token # Nil
  <2> DEFINE r == [was |-> token.user, user |-> p.user, ch |-> p.ch, own |-> own]
  <2>1. /\ reauths' = reauths \cup {r} /\ NoHandler(st, rest)
        /\ token' = token /\ cache' = cache /\ used' = used
    BY <1>3 DEF CompleteAuthentication
  <2>2. r \in [was : Users, user : Users, ch : Pages, own : BOOLEAN] /\ r.ch = p.ch
    BY <1>0, <1>2, <1>3 DEF KeyTypes, Tokens
  <2> HIDE DEF r
  <2>3. KeyTypes'
    BY <1>0, <1>1, <2>1, <2>2 DEF KeyTypes
  <2>4. handler' = handler
    BY <2>1 DEF NoHandler
  <2>5. KeyInv'
    <3>1. \A ch : Validated(ch)' <=> Validated(ch)
      BY <1>0, <2>1, <2>4 DEF Validated
    <3>2. Validated(p.ch)
      BY <1>2, <1>3 DEF Expected, Validated
    <3>3. \A x \in reauths' : Validated(x.ch)' /\ \A y \in reauths' : y.ch = x.ch => y = x
      BY <1>0, <1>2, <1>3, <2>1, <2>2, <3>1, <3>2 DEF KeyInv, ChallengeInv
    <3> QED BY <1>0, <1>1, <2>1, <3>3 DEF KeyInv, ChallengeInv, ChallengeUsedOnce
  <2> QED BY <2>1, <2>3, <2>5 DEF ManagerStep
<1>4. CASE granted /\ token = Nil
  <2> DEFINE t == [user |-> p.user, ch |-> p.ch]
  <2>1. /\ token' = t /\ cache' = t /\ used' = [used EXCEPT ![p.ch] = used[p.ch] + 1]
        /\ reauths' = reauths
        /\ ManagerDone(own, Told("token", p.ch), rest)
    BY <1>4 DEF CompleteAuthentication, SetCurrentAccessToken
  <2>2. t \in Tokens
    BY <1>2, <1>4 DEF Tokens
  <2> HIDE DEF t
  <2>3. handler' = handler
    BY <2>1 DEF ManagerDone, NoHandler, InvokeHandler
  <2>4. /\ used' \in [Pages -> Nat] /\ used'[p.ch] = 1
        /\ \A ch \in Pages : ch # p.ch => used'[ch] = used[ch]
    BY <1>0, <1>2, <1>4, <2>1 DEF KeyTypes, Expected
  <2>5. KeyTypes'
    BY <1>0, <1>1, <2>1, <2>2, <2>4 DEF KeyTypes
  <2>6. KeyInv'
    <3>1. \A x \in reauths : x.ch \in Pages /\ x.ch # p.ch
      BY <1>0, <1>2, <1>4 DEF KeyTypes
    <3>2. \A x \in reauths' : Validated(x.ch)'
      BY <1>0, <2>1, <2>3, <2>4, <3>1 DEF KeyInv, ChallengeInv, Validated
    <3>3. p.ch \in 1..Len(pages)
      BY <1>2, <1>4 DEF Expected
    <3>4. \A ch \in Pages : used'[ch] <= 1 /\ (ch > Len(pages) => used'[ch] = 0)
      BY <1>0, <2>4, <3>3 DEF KeyInv, ChallengeInv, ChallengeUsedOnce
    <3> QED BY <1>0, <1>1, <2>1, <3>2, <3>4 DEF KeyInv, ChallengeInv, ChallengeUsedOnce
  <2>7. OwnPage(p.ch)
    BY <1>2, <1>4 DEF Expected, OwnPage
  <2>8. Told("token", p.ch) \in Results /\ Told("token", p.ch).ch = p.ch
    BY <1>2, <1>4, ToldFacts
  <2>9. CASE own
    <3>1. Tells(Told("token", p.ch), rest)
      BY <2>1, <2>7, <2>8, <2>9 DEF ManagerDone, Tells
    <3> QED BY <2>5, <2>6, <2>8, <2>9, <3>1 DEF ManagerStep
  <2>10. CASE ~own
    BY <1>0, <2>1, <2>5, <2>6, <2>10 DEF ManagerDone, ManagerStep
  <2> QED BY <2>9, <2>10
<1>5. CASE ~granted
  <2> DEFINE w == IF Failed(p) THEN "error" ELSE "cancelled"
  <2>1. /\ token' = token /\ cache' = cache /\ used' = used /\ reauths' = reauths
        /\ ManagerDone(own, Told(w, 0), rest)
    BY <1>5 DEF CompleteAuthentication
  <2>2. handler' = handler
    BY <2>1 DEF ManagerDone, NoHandler, InvokeHandler
  <2>3. KeyTypes'
    BY <1>0, <1>1, <2>1 DEF KeyTypes
  <2>4. KeyInv'
    <3>1. \A ch : Validated(ch)' <=> Validated(ch)
      BY <1>0, <2>1, <2>2 DEF Validated
    <3> QED BY <1>0, <1>1, <2>1, <3>1 DEF KeyInv, ChallengeInv, ChallengeUsedOnce
  <2>5. w \in {"error", "cancelled"}
    OBVIOUS
  <2> HIDE DEF w
  <2>6. Told(w, 0) \in Results /\ Told(w, 0).r # "token"
    BY <2>5, ToldFacts
  <2>7. CASE own
    <3>1. Tells(Told(w, 0), rest)
      BY <2>1, <2>6, <2>7 DEF ManagerDone, Tells
    <3> QED BY <2>3, <2>4, <2>6, <2>7, <3>1 DEF ManagerStep
  <2>8. CASE ~own
    BY <1>0, <2>1, <2>3, <2>4, <2>8 DEF ManagerDone, ManagerStep
  <2> QED BY <2>7, <2>8
<1> QED BY <1>3, <1>4, <1>5

(* The keys do not change. *)
LEMMA KeysKept ==
    ASSUME IInv, UNCHANGED <<setting, pages, reauthsAt, handler>>, UNCHANGED keyVars,
           reauths' \subseteq reauths
    PROVE  KeyTypes' /\ KeyInv'
<1>0. KeyTypes /\ KeyInv /\ Tokens' = Tokens /\ Users' = Users
  BY SameSetting DEF IInv, TypeOK, KeyTypeOK, KeyTypes, KeyInv
<1>1. KeyTypes'
  BY <1>0 DEF KeyTypes, keyVars
<1>2. \A ch : (Validated(ch)' <=> Validated(ch)) /\ (Expected(ch)' <=> Expected(ch))
  BY DEF Validated, Expected, keyVars
<1> QED BY <1>0, <1>1, <1>2 DEF KeyInv, ChallengeInv, ChallengeUsedOnce, keyVars

(* FBSDKLoginURLCompleter completeLogIn. *)
LEMMA Completes ==
    ASSUME IInv, NEW url \in AllURLs, NEW own \in BOOLEAN, NEW st \in States, NEW rest,
           UNCHANGED <<setting, pages, reauthsAt>>,
           CompleteLogIn(url, own, st, rest)
    PROVE  /\ KeyTypeOK' /\ KeyInv'
           /\ ManagerStep(rest)
           /\ ~own => \E s \in States : NoHandler(s, rest)
<1>0. url.kind = "token" => url \in AllTokenURLs
  BY URLFacts
<1>1. mes \subseteq [url : AllTokenURLs, own : BOOLEAN] /\ AllTokenURLs' = AllTokenURLs
  BY SameSetting DEF IInv, TypeOK, KeyTypeOK
<1>2. CASE url.kind = "token" /\ ~url.known
  <2>1. /\ mes' = mes \cup {[url |-> url, own |-> own]} /\ NoHandler(st, rest)
        /\ UNCHANGED keyVars /\ reauths' = reauths
    BY <1>2 DEF CompleteLogIn
  <2>2. handler' = handler
    BY <2>1 DEF NoHandler
  <2>3. KeyTypes' /\ KeyInv'
    BY <2>1, <2>2, KeysKept
  <2>4. mes' \subseteq [url : AllTokenURLs, own : BOOLEAN]'
    BY <1>0, <1>1, <1>2, <2>1
  <2> QED BY <2>1, <2>3, <2>4 DEF KeyTypes, KeyTypeOK, ManagerStep
<1>3. CASE ~(url.kind = "token" /\ ~url.known)
  <2>1. CompleteAuthentication(url, own, st, rest) /\ mes' = mes
    BY <1>3 DEF CompleteLogIn
  <2>2. /\ KeyTypes' /\ KeyInv' /\ ManagerStep(rest)
        /\ ~own => \E s \in States : NoHandler(s, rest)
    BY <1>0, <2>1, Authenticates
  <2> QED BY <1>1, <2>1, <2>2 DEF KeyTypes, KeyTypeOK
<1> QED BY <1>2, <1>3

-----------------------------------------------------------------------------
(* Events                                                                  *)

(* All but what is being asked, the app and the bound. *)
CoreInv == /\ MgrTypeOK /\ FrameInv /\ HandlerInv /\ HandlerAtMostOnce
           /\ ToldInv /\ TokenFromOwnPage /\ KeyTypeOK /\ KeyInv

(* The invariant from its parts. *)
LEMMA IInvParts ==
    ASSUME IInv, setting' = setting, CoreInv', AskTypeOK', UiTypeOK', PageInv'
    PROVE  IInv'
BY DEF IInv, CoreInv, TypeOK, KeyInv

(* An event, once its keys are known to be in order. *)
LEMMA EventCore ==
    ASSUME IInv, stack = <<>>, UNCHANGED <<setting, nextAtt, pages, reauthsAt>>,
           NEW rest, Calm(rest), ManagerStep(rest), KeyTypeOK', KeyInv'
    PROVE  CoreInv' /\ LogInFrames' = Relogins(rest) /\ NativeFrames' = {}
BY EventManager, EventTold DEF CoreInv

(* An event that leaves the keys alone. *)
LEMMA QuietCore ==
    ASSUME IInv, stack = <<>>, UNCHANGED <<setting, nextAtt, pages, reauthsAt>>,
           NEW rest, Calm(rest), ManagerStep(rest), UNCHANGED <<keyVars, netVars>>
    PROVE  CoreInv' /\ LogInFrames' = Relogins(rest) /\ NativeFrames' = {}
<1>1. handler' = handler
  BY DEF ManagerStep, NoHandler, Tells, InvokeHandler
<1>2. KeyTypes' /\ KeyInv'
  BY <1>1, KeysKept DEF netVars
<1>3. mes' \subseteq [url : AllTokenURLs, own : BOOLEAN]'
  BY SameSetting DEF IInv, TypeOK, KeyTypeOK, netVars
<1>4. KeyTypeOK'
  BY <1>2, <1>3 DEF KeyTypes, KeyTypeOK
<1> QED BY <1>2, <1>4, EventCore

(* The pages promised to waiting opens and dismissals, and to a waiting fallback. *)
Opening == Cardinality(NativeOpens) + Cardinality(DisabledWaits)
Fallback == IF fallback = "none" THEN 0 ELSE 1

(* The pages promised are counted, and they fit in the bound. *)
LEMMA PromiseFacts ==
    ASSUME IInv
    PROVE  /\ IsFiniteSet(LogInFrames) /\ IsFiniteSet(NativeFrames)
           /\ IsFiniteSet(NativeOpens) /\ IsFiniteSet(DisabledWaits)
           /\ Cardinality(LogInFrames) \in Nat /\ Cardinality(NativeFrames) \in Nat
           /\ Cardinality(NativeOpens) \in Nat /\ Cardinality(DisabledWaits) \in Nat
           /\ Opening \in Nat /\ Fallback \in {0, 1}
           /\ Promised = Cardinality(LogInFrames) + Cardinality(NativeFrames) + Opening
                         + Fallback
           /\ Len(pages) \in Nat /\ Len(pages) + Promised <= MaxChallenges
           /\ Spare = MaxChallenges - Len(pages) - Promised
           /\ stack = <<>> => Cardinality(LogInFrames) = 0 /\ Cardinality(NativeFrames) = 0
<1>1. stack \in Seq(Frames) /\ IsFiniteSet(opens) /\ IsFiniteSet(dismissals)
      /\ Len(pages) \in Nat /\ Spare >= 0
  BY DEF IInv, TypeOK, MgrTypeOK, AskTypeOK, PageInv
<1>2. IsFiniteSet(FramesOf(stack))
  BY <1>1, FramesFinite
<1>3. /\ IsFiniteSet(LogInFrames) /\ IsFiniteSet(NativeFrames)
      /\ IsFiniteSet(NativeOpens) /\ IsFiniteSet(DisabledWaits)
  BY <1>1, <1>2, FS_Subset DEF LogInFrames, NativeFrames, NativeOpens, DisabledWaits
<1>4. /\ Cardinality(LogInFrames) \in Nat /\ Cardinality(NativeFrames) \in Nat
      /\ Cardinality(NativeOpens) \in Nat /\ Cardinality(DisabledWaits) \in Nat
  BY <1>3, FS_CardinalityType
<1>5. stack = <<>> => LogInFrames = {} /\ NativeFrames = {}
  BY DEF LogInFrames, NativeFrames, FramesOf
<1>6. stack = <<>> => Cardinality(LogInFrames) = 0 /\ Cardinality(NativeFrames) = 0
  BY <1>5, FS_EmptySet
<1> QED BY SMTT(30), <1>1, <1>3, <1>4, <1>6, NilFacts DEF Promised, Opening, Fallback, Spare

(* The bound after an event. *)
LEMMA EventPages ==
    ASSUME IInv, stack = <<>>, pages' = pages, NativeFrames' = {},
           IsFiniteSet(opens'), opens' \subseteq opens, IsFiniteSet(dismissals'),
           NEW rest, Calm(rest), LogInFrames' = Relogins(rest),
           Cardinality(Relogins(rest)) + Fallback' + Opening' <= Fallback + Opening + Spare
    PROVE  PageInv'
<1>1. /\ Cardinality(NativeFrames') = 0 /\ Cardinality(LogInFrames') \in Nat
      /\ Cardinality(LogInFrames') = Cardinality(Relogins(rest))
  BY CalmOne, FS_EmptySet
<1>2. IsFiniteSet(NativeOpens') /\ IsFiniteSet(DisabledWaits')
  BY FS_Subset DEF NativeOpens, DisabledWaits
<1>3. Cardinality(NativeOpens') \in Nat /\ Cardinality(DisabledWaits') \in Nat
  BY <1>2, FS_CardinalityType
<1>4. Opening' \in Nat /\ Fallback' \in {0, 1}
  BY <1>3 DEF Opening, Fallback
<1>5. Spare' = MaxChallenges - Len(pages) - (Cardinality(LogInFrames') + 0 + Opening' + Fallback')
  BY <1>1, <1>3, <1>4, PromiseFacts, NilFacts DEF Spare, Promised, Opening, Fallback
<1>6. Spare' >= 0
  BY SMTT(30), <1>1, <1>4, <1>5, PromiseFacts, NilFacts
<1>7. \A o \in opens' : o.ch \in 1..Len(pages')
  BY DEF IInv, PageInv
<1> QED BY <1>6, <1>7 DEF PageInv

(* An event whose URL is promised a page owes no more than it. *)
Owed(url) == IF url.kind = "disabled" THEN 1 ELSE 0
Settles(s, url) ==
    /\ Calm(s) /\ LogInFrames' = Relogins(s)
    /\ Cardinality(Relogins(s)) + Fallback' <= Fallback + Owed(url)

(* openURL: of the manager, if it is the pending opener: a fallback is promised its page. *)
LEMMA OpenerStep ==
    ASSUME IInv, stack = <<>>, UNCHANGED <<setting, nextAtt, pages, reauthsAt>>,
           NEW opener \in BOOLEAN, NEW url \in AllURLs, NEW st \in States,
           NEW rest, Calm(rest), Relogins(rest) = {},
           OpenerOpenURL(opener, url, st, rest)
    PROVE  /\ CoreInv' /\ fallback' \in {"none", "observer", "spin"} /\ NativeFrames' = {}
           /\ \E s : Settles(s, url)
<1>0. fallback \in {"none", "observer", "spin"}
  BY DEF IInv, TypeOK, UiTypeOK
<1>1. Cardinality(Relogins(rest)) = 0
  BY FS_EmptySet
<1>2. CASE ~opener
  <2>1. NoHandler(st, rest) /\ UNCHANGED <<keyVars, netVars>> /\ fallback' = fallback
    BY <1>2 DEF OpenerOpenURL
  <2>2. ManagerStep(rest)
    BY <2>1 DEF ManagerStep
  <2>3. CoreInv' /\ LogInFrames' = Relogins(rest) /\ NativeFrames' = {}
    BY <2>1, <2>2, QuietCore
  <2>6. Cardinality(Relogins(rest)) + Fallback' <= Fallback + Owed(url)
    BY <1>0, <1>1, <2>1, <2>3 DEF Fallback, Owed
  <2>7. Settles(rest, url)
    BY <2>6, <2>3 DEF Settles
  <2> QED BY <1>0, <2>1, <2>3, <2>7
<1>3. CASE opener /\ url.kind = "foreign"
  <2>1. /\ UNCHANGED <<keyVars, netVars>> /\ fallback' = fallback
        /\ IF st = "Performing" THEN ImplicitCancel(rest) ELSE NoHandler(st, rest)
    BY <1>3 DEF OpenerOpenURL, ManagerOpenURL
  <2>2. Told("cancelled", 0) \in Results /\ Told("cancelled", 0).r = "cancelled"
    BY ToldFacts
  <2>3. ManagerStep(rest)
    BY <2>1, <2>2 DEF ManagerStep, ImplicitCancel, Tells
  <2>4. CoreInv' /\ LogInFrames' = Relogins(rest) /\ NativeFrames' = {}
    BY <2>1, <2>3, QuietCore
  <2>6. Cardinality(Relogins(rest)) + Fallback' <= Fallback + Owed(url)
    BY <1>0, <1>1, <2>1, <2>4 DEF Fallback, Owed
  <2>7. Settles(rest, url)
    BY <2>6, <2>4 DEF Settles
  <2> QED BY <1>0, <2>1, <2>4, <2>7
<1>4. CASE opener /\ url.kind = "disabled" /\ active
  <2> DEFINE s == Then("relogin") \o rest
  <2>1. UNCHANGED <<keyVars, netVars>> /\ fallback' = fallback /\ NoHandler(st, s)
    BY <1>4 DEF OpenerOpenURL, ManagerOpenURL
  <2>2. Calm(s) /\ Relogins(s) = {Frame("relogin", Nil, Nil)}
    BY CalmCons
  <2> HIDE DEF s
  <2>3. ManagerStep(s)
    BY <2>1 DEF ManagerStep
  <2>4. CoreInv' /\ LogInFrames' = Relogins(s) /\ NativeFrames' = {}
    BY <2>1, <2>2, <2>3, QuietCore
  <2>5. Cardinality(Relogins(s)) = 1
    BY <2>2, FS_Singleton
  <2>6. Cardinality(Relogins(s)) + Fallback' <= Fallback + Owed(url)
    BY <1>0, <1>4, <2>1, <2>2, <2>4, <2>5 DEF Fallback, Owed
  <2>7. Settles(s, url)
    BY <2>6, <2>4, <2>2 DEF Settles
  <2> QED BY <1>0, <2>1, <2>4, <2>7
<1>5. CASE opener /\ url.kind = "disabled" /\ ~active
  <2>1. UNCHANGED <<keyVars, netVars>> /\ fallback' = "observer" /\ NoHandler(st, rest)
    BY <1>5 DEF OpenerOpenURL, ManagerOpenURL
  <2>2. ManagerStep(rest)
    BY <2>1 DEF ManagerStep
  <2>3. CoreInv' /\ LogInFrames' = Relogins(rest) /\ NativeFrames' = {}
    BY <2>1, <2>2, QuietCore
  <2>6. Cardinality(Relogins(rest)) + Fallback' <= Fallback + Owed(url)
    BY <1>0, <1>1, <1>5, <2>1, <2>3 DEF Fallback, Owed
  <2>7. Settles(rest, url)
    BY <2>6, <2>3 DEF Settles
  <2> QED BY <1>0, <2>1, <2>3, <2>7
<1>6. CASE opener /\ url.kind \in {"token", "cancel", "error"}
  <2>1. fallback' = fallback /\ CompleteLogIn(url, TRUE, st, rest)
    BY <1>6 DEF OpenerOpenURL, ManagerOpenURL
  <2>2. KeyTypeOK' /\ KeyInv' /\ ManagerStep(rest)
    BY <2>1, Completes
  <2>3. CoreInv' /\ LogInFrames' = Relogins(rest) /\ NativeFrames' = {}
    BY <2>2, EventCore
  <2>6. Cardinality(Relogins(rest)) + Fallback' <= Fallback + Owed(url)
    BY <1>0, <1>1, <2>1, <2>3 DEF Fallback, Owed
  <2>7. Settles(rest, url)
    BY <2>6, <2>3 DEF Settles
  <2> QED BY <1>0, <2>1, <2>3, <2>7
<1> QED BY <1>2, <1>3, <1>4, <1>5, <1>6, URLFacts

(* What one more dismissal, or one less, does to the pages promised. *)
LEMMA WaitsAdd ==
    ASSUME IInv, NEW d, dismissals' = dismissals \cup {d}
    PROVE  /\ IsFiniteSet(dismissals')
           /\ Cardinality(DisabledWaits') <= Cardinality(DisabledWaits) + Owed(d.url)
<1>0. /\ IsFiniteSet(dismissals) /\ IsFiniteSet(DisabledWaits)
      /\ Cardinality(DisabledWaits) \in Nat
  BY PromiseFacts DEF IInv, PageInv
<1>1. IsFiniteSet(dismissals')
  BY <1>0, FS_AddElement
<1>2. CASE d.url.kind = "disabled"
  <2>1. DisabledWaits' = DisabledWaits \cup {d}
    BY <1>2 DEF DisabledWaits
  <2>2. \/ Cardinality(DisabledWaits') = Cardinality(DisabledWaits)
        \/ Cardinality(DisabledWaits') = Cardinality(DisabledWaits) + 1
    BY <1>0, <2>1, FS_AddElement
  <2> QED BY <1>0, <1>1, <1>2, <2>2 DEF Owed
<1>3. CASE d.url.kind # "disabled"
  <2>1. DisabledWaits' = DisabledWaits
    BY <1>3 DEF DisabledWaits
  <2> QED BY <1>0, <1>1, <1>3, <2>1 DEF Owed
<1> QED BY <1>2, <1>3

(* ... one less. *)
LEMMA WaitsRemove ==
    ASSUME IInv, NEW d \in dismissals, dismissals' = dismissals \ {d}
    PROVE  /\ IsFiniteSet(dismissals')
           /\ Cardinality(DisabledWaits') + Owed(d.url) = Cardinality(DisabledWaits)
<1>0. /\ IsFiniteSet(dismissals) /\ IsFiniteSet(DisabledWaits)
      /\ Cardinality(DisabledWaits) \in Nat
  BY PromiseFacts DEF IInv, PageInv
<1>1. IsFiniteSet(dismissals')
  BY <1>0, FS_RemoveElement
<1>2. CASE d.url.kind = "disabled"
  <2>1. DisabledWaits' = DisabledWaits \ {d} /\ d \in DisabledWaits
    BY <1>2 DEF DisabledWaits
  <2>2. Cardinality(DisabledWaits') = Cardinality(DisabledWaits) - 1
    BY <1>0, <2>1, FS_RemoveElement
  <2> QED BY <1>0, <1>1, <1>2, <2>2 DEF Owed
<1>3. CASE d.url.kind # "disabled"
  <2>1. DisabledWaits' = DisabledWaits
    BY <1>3 DEF DisabledWaits
  <2> QED BY <1>0, <1>1, <1>3, <2>1 DEF Owed
<1> QED BY <1>2, <1>3

(* What ui types and asking depend on. *)
LEMMA AskFacts ==
    ASSUME IInv
    PROVE  /\ AskTypeOK /\ UiTypeOK /\ setting \in Settings /\ state \in States
           /\ pendingURLOpen \in BOOLEAN
           /\ IsFiniteSet(opens) /\ IsFiniteSet(dismissals)
BY DEF IInv, TypeOK, MgrTypeOK, AskTypeOK, PageInv

(* The delegate's openURL. *)
LEMMA DelegateStep ==
    ASSUME IInv, stack = <<>>, NEW url \in AllURLs, NEW st \in States,
           NEW sessions \in SUBSET Pages, NEW others \in SUBSET Pages,
           NEW rest, Calm(rest), Relogins(rest) = {},
           url.kind = "disabled" => Spare > 0,
           DelegateOpenURL(url, st, sessions, others, rest)
    PROVE  IInv'
<1> USE NilFacts
<1>0. UNCHANGED <<setting, nextAtt, pages, reauthsAt, gone, expectingBackground, presenting,
                  opens, web, active, ui, leaving, launchURL>>
  BY DEF DelegateOpenURL, appVars
<1>1. Routes' = Routes /\ AllURLs' = AllURLs
  BY <1>0, SameSetting
<1>2. Owed(url) \in {0, 1} /\ Owed(url) <= Spare
  BY PromiseFacts DEF Owed
<1>3. CASE safariVC # Nil
  <2> DEFINE d == [url |-> url, opener |-> pendingURLOpen]
  <2>1. /\ safariVC' = Nil /\ outside' = others \ {safariVC} /\ dismissing' = TRUE
        /\ dismissals' = dismissals \cup {d} /\ NoHandler(st, rest) /\ live' = sessions
        /\ UNCHANGED <<keyVars, netVars, fallback, pendingURLOpen, authSession, ending>>
    BY <1>3 DEF DelegateOpenURL
  <2>2. d.url = url /\ d \in [url : AllURLs, opener : BOOLEAN]
    BY AskFacts
  <2> HIDE DEF d
  <2>3. ManagerStep(rest)
    BY <2>1 DEF ManagerStep
  <2>4. CoreInv' /\ LogInFrames' = Relogins(rest) /\ NativeFrames' = {}
    BY <1>0, <2>1, <2>3, QuietCore
  <2>5. AskTypeOK'
    BY <1>0, <1>1, <2>1, AskFacts DEF AskTypeOK
  <2>6. UiTypeOK'
    BY <1>0, <1>1, <2>1, <2>2, AskFacts DEF UiTypeOK
  <2>7. PageInv'
    <3>1. /\ IsFiniteSet(dismissals')
          /\ Cardinality(DisabledWaits') <= Cardinality(DisabledWaits) + Owed(url)
      BY <2>1, <2>2, WaitsAdd
    <3>2. IsFiniteSet(DisabledWaits')
      BY <3>1, FS_Subset DEF DisabledWaits
    <3>3. Cardinality(DisabledWaits') \in Nat
      BY <3>2, FS_CardinalityType
    <3>4. NativeOpens' = NativeOpens /\ Fallback' = Fallback
      BY <1>0, <2>1 DEF NativeOpens, Fallback
    <3>5. Opening' <= Opening + Owed(url) /\ Opening' \in Nat
      BY <1>2, <3>1, <3>3, <3>4, PromiseFacts DEF Opening
    <3>6. Cardinality(Relogins(rest)) = 0
      BY FS_EmptySet
    <3>7. Cardinality(Relogins(rest)) + Fallback' + Opening' <= Fallback + Opening + Spare
      BY <1>2, <3>4, <3>5, <3>6, PromiseFacts
    <3> QED BY <1>0, <2>4, <3>1, <3>7, AskFacts, EventPages
  <2> QED BY <1>0, <2>4, <2>5, <2>6, <2>7, IInvParts
<1>4. CASE safariVC = Nil
  <2>1. /\ authSession' = Nil /\ live' = sessions \ {authSession}
        /\ ending' = ending \cup (sessions \cap {authSession})
        /\ pendingURLOpen' = FALSE /\ dismissing' = FALSE
        /\ OpenerOpenURL(pendingURLOpen, url, st, rest)
        /\ outside' = others /\ UNCHANGED <<safariVC, dismissals>>
    BY <1>4 DEF DelegateOpenURL
  <2>2. /\ CoreInv' /\ fallback' \in {"none", "observer", "spin"} /\ NativeFrames' = {}
        /\ \E s : Settles(s, url)
    BY <1>0, <2>1, AskFacts, OpenerStep
  <2>3. AskTypeOK'
    BY <1>0, <1>1, <2>1, AskFacts DEF AskTypeOK
  <2>4. UiTypeOK'
    BY <1>0, <1>1, <2>1, <2>2, AskFacts DEF UiTypeOK
  <2>5. PageInv'
    <3>1. PICK s : Settles(s, url)
      BY <2>2
    <3>2. Calm(s) /\ LogInFrames' = Relogins(s)
          /\ Cardinality(Relogins(s)) + Fallback' <= Fallback + Owed(url)
      BY <3>1 DEF Settles
    <3>3. Cardinality(Relogins(s)) \in {0, 1} /\ Fallback' \in {0, 1}
      BY <3>2, CalmOne DEF Fallback
    <3>4. Opening' = Opening
      BY <1>0, <2>1 DEF Opening, NativeOpens, DisabledWaits
    <3>5. Cardinality(Relogins(s)) + Fallback' + Opening' <= Fallback + Opening + Spare
      BY <1>2, <3>2, <3>3, <3>4, PromiseFacts
    <3> QED BY <1>0, <2>1, <2>2, <3>2, <3>5, AskFacts, EventPages
  <2> QED BY <1>0, <2>2, <2>3, <2>4, <2>5, IInvParts
<1> QED BY <1>3, <1>4

(* An answer from another app or from the SFSafariViewController. *)
LEMMA FacebookAnswersStep ==
    ASSUME IInv, NEW ch \in outside, NEW url \in Answers(ch), FacebookAnswers(ch, url)
    PROVE  IInv'
<1>1. ch \in Pages /\ live \in SUBSET Pages /\ outside \in SUBSET Pages
      /\ outside \ {ch} \in SUBSET Pages
  BY AskFacts DEF AskTypeOK
<1>2. url \in AllURLs /\ (url.kind = "disabled" => Spare > 0)
  BY <1>1, AnswersFacts
<1> DEFINE others == IF Redelivery THEN outside ELSE outside \ {ch}
<1>3. stack = <<>> /\ DelegateOpenURL(url, state, live, others, <<>>)
  BY DEF FacebookAnswers
<1>4. others \in SUBSET Pages
  BY <1>1
<1> HIDE DEF others
<1> QED BY <1>1, <1>2, <1>3, <1>4, CalmThen, AskFacts, DelegateStep

(* A URL that is none of Facebook's. *)
LEMMA DeepLinkStep ==
    ASSUME IInv, DeepLinkArrives
    PROVE  IInv'
<1>1. live \in SUBSET Pages /\ outside \in SUBSET Pages
  BY AskFacts DEF AskTypeOK
<1>2. stack = <<>> /\ DelegateOpenURL(ForeignURL, state, live, outside, <<>>)
  BY DEF DeepLinkArrives
<1>3. ForeignURL \in AllURLs /\ ForeignURL.kind # "disabled"
  BY URLFacts
<1> QED BY <1>1, <1>2, <1>3, CalmThen, AskFacts, DelegateStep

(* An answer from the SFAuthenticationSession. *)
LEMMA SessionAnswersStep ==
    ASSUME IInv, NEW ch \in live, NEW url \in Answers(ch), SessionAnswers(ch, url)
    PROVE  IInv'
<1>1. ch \in Pages /\ live \ {ch} \in SUBSET Pages /\ outside \in SUBSET Pages
  BY AskFacts DEF AskTypeOK
<1>2. url \in AllURLs /\ (url.kind = "disabled" => Spare > 0)
  BY <1>1, AnswersFacts
<1>3. stack = <<>>
      /\ DelegateOpenURL(url, "Performing", live \ {ch}, outside, Then("endSession"))
  BY DEF SessionAnswers
<1>4. "Performing" \in States
  BY DEF States
<1> QED BY <1>1, <1>2, <1>3, <1>4, CalmThen, DelegateStep

(* An event that leaves the keys, the opens, the dismissals and the fallback alone. *)
LEMMA PlainPages ==
    ASSUME IInv, stack = <<>>, UNCHANGED <<pages, opens, dismissals, fallback>>,
           NEW rest, Calm(rest), Relogins(rest) = {}, LogInFrames' = Relogins(rest),
           NativeFrames' = {}
    PROVE  PageInv'
<1>1. Opening' = Opening /\ Fallback' = Fallback
  BY DEF Opening, Fallback, NativeOpens, DisabledWaits
<1>2. Cardinality(Relogins(rest)) = 0
  BY FS_EmptySet
<1>3. Cardinality(Relogins(rest)) + Fallback' + Opening' <= Fallback + Opening + Spare
  BY <1>1, <1>2, PromiseFacts, NilFacts
<1> QED BY <1>3, AskFacts, EventPages

(* An implicit cancellation is a step of the manager. *)
LEMMA CancelledFacts ==
    ASSUME NEW rest, ImplicitCancel(rest)
    PROVE  ManagerStep(rest)
<1>1. Told("cancelled", 0) \in Results /\ Told("cancelled", 0).r = "cancelled"
  BY ToldFacts
<1> QED BY <1>1 DEF ManagerStep, ImplicitCancel, Tells

(* The SFAuthenticationSession calls back with an error. *)
LEMMA SessionCancelledStep ==
    ASSUME IInv, NEW ch, SessionCancelled(ch)
    PROVE  IInv'
<1>1. /\ stack = <<>> /\ ImplicitCancel(Then("endSession"))
      /\ live' = live \ {ch} /\ ending' = ending \ {ch}
      /\ UNCHANGED <<setting, nextAtt, gone, reauthsAt, keyVars, netVars, pages,
                     pendingURLOpen, expectingBackground, safariVC, presenting, authSession,
                     opens, web, active, dismissing, dismissals, outside, fallback, ui,
                     leaving, launchURL>>
  BY DEF SessionCancelled, appVars
<1>2. Calm(Then("endSession")) /\ Relogins(Then("endSession")) = {}
      /\ ManagerStep(Then("endSession"))
  BY <1>1, CalmThen, CancelledFacts
<1>3. /\ CoreInv' /\ LogInFrames' = Relogins(Then("endSession")) /\ NativeFrames' = {}
  BY <1>1, <1>2, QuietCore
<1>4. PageInv'
  BY <1>1, <1>2, <1>3, PlainPages
<1>5. AskTypeOK' /\ UiTypeOK'
  BY <1>1, SameSetting, AskFacts DEF AskTypeOK, UiTypeOK
<1> QED BY <1>1, <1>3, <1>4, <1>5, IInvParts

(* The answer that waited for a dismissal is handed on. *)
LEMMA DismissCompletesStep ==
    ASSUME IInv, NEW d \in dismissals, DismissCompletes(d)
    PROVE  IInv'
<1>1. /\ stack = <<>> /\ dismissals' = dismissals \ {d}
      /\ pendingURLOpen' = FALSE /\ dismissing' = FALSE
      /\ OpenerOpenURL(d.opener, d.url, state, <<>>)
      /\ UNCHANGED <<setting, nextAtt, gone, reauthsAt, pages, expectingBackground, safariVC,
                     presenting, authSession, live, opens, web, active, ending, outside, ui,
                     leaving, launchURL>>
  BY DEF DismissCompletes, appVars
<1>2. d.url \in AllURLs /\ d.opener \in BOOLEAN
  BY AskFacts DEF UiTypeOK
<1>3. /\ CoreInv' /\ fallback' \in {"none", "observer", "spin"} /\ NativeFrames' = {}
      /\ \E s : Settles(s, d.url)
  BY <1>1, <1>2, CalmThen, AskFacts, OpenerStep
<1>4. AskTypeOK' /\ UiTypeOK'
  BY <1>1, <1>3, SameSetting, AskFacts DEF AskTypeOK, UiTypeOK
<1>5. PageInv'
  <2>1. PICK s : Settles(s, d.url)
    BY <1>3
  <2>2. Calm(s) /\ LogInFrames' = Relogins(s)
        /\ Cardinality(Relogins(s)) + Fallback' <= Fallback + Owed(d.url)
    BY <2>1 DEF Settles
  <2>3. Cardinality(Relogins(s)) \in {0, 1} /\ Fallback' \in {0, 1} /\ Owed(d.url) \in {0, 1}
    BY <2>2, CalmOne DEF Fallback, Owed
  <2>4. /\ IsFiniteSet(dismissals')
        /\ Cardinality(DisabledWaits') + Owed(d.url) = Cardinality(DisabledWaits)
    BY <1>1, WaitsRemove
  <2>5. IsFiniteSet(DisabledWaits')
    BY <2>4, FS_Subset DEF DisabledWaits
  <2>6. Cardinality(DisabledWaits') \in Nat /\ NativeOpens' = NativeOpens
    BY <1>1, <2>5, FS_CardinalityType DEF NativeOpens
  <2>7. Opening' + Owed(d.url) = Opening /\ Opening' \in Nat
    BY <2>3, <2>4, <2>6, PromiseFacts DEF Opening
  <2>8. Spare \in Nat /\ Fallback \in {0, 1} /\ Opening \in Nat
    BY PromiseFacts, NilFacts
  <2>9. Cardinality(Relogins(s)) + Fallback' + Opening' <= Fallback + Opening + Spare
    BY <2>2, <2>3, <2>7, <2>8
  <2> QED BY <1>1, <1>3, <2>2, <2>4, <2>9, AskFacts, EventPages
<1> QED BY <1>1, <1>3, <1>4, <1>5, IInvParts

(* The SFSafariViewController appears. *)
LEMMA SafariPresentsStep ==
    ASSUME IInv, SafariPresents
    PROVE  IInv'
<1>1. /\ stack = <<>> /\ presenting # Nil /\ NoHandler(state, <<>>)
      /\ safariVC' = presenting /\ outside' = outside \cup {presenting} /\ presenting' = Nil
      /\ UNCHANGED <<setting, nextAtt, gone, reauthsAt, keyVars, netVars, pages,
                     pendingURLOpen, expectingBackground, authSession, live, opens, web,
                     active, dismissing, dismissals, ending, fallback, ui, leaving,
                     launchURL>>
  BY DEF SafariPresents, NoHandler, mgrVars, appVars
<1>2. ManagerStep(<<>>)
  BY <1>1, AskFacts DEF ManagerStep
<1>3. CoreInv' /\ LogInFrames' = Relogins(<<>>) /\ NativeFrames' = {}
  BY <1>1, <1>2, CalmThen, QuietCore
<1>4. PageInv'
  BY <1>1, <1>3, CalmThen, PlainPages
<1>5. AskTypeOK' /\ UiTypeOK'
  BY <1>1, SameSetting, AskFacts DEF AskTypeOK, UiTypeOK
<1> QED BY <1>1, <1>3, <1>4, <1>5, IInvParts

(* The user closes the SFSafariViewController. *)
LEMMA SafariDidFinishStep ==
    ASSUME IInv, SafariDidFinish
    PROVE  IInv'
<1>1. /\ stack = <<>> /\ pendingURLOpen' = FALSE
      /\ OpenerOpenURL(pendingURLOpen, ForeignURL, state, Then("endSafari"))
      /\ UNCHANGED <<setting, nextAtt, gone, reauthsAt, pages, expectingBackground, safariVC,
                     presenting, authSession, live, opens, web, active, dismissing,
                     dismissals, ending, outside, ui, leaving, launchURL>>
  BY DEF SafariDidFinish, appVars
<1>2. ForeignURL \in AllURLs /\ Owed(ForeignURL) = 0
  BY URLFacts DEF Owed
<1>3. /\ CoreInv' /\ fallback' \in {"none", "observer", "spin"} /\ NativeFrames' = {}
      /\ \E s : Settles(s, ForeignURL)
  BY <1>1, <1>2, CalmThen, AskFacts, OpenerStep
<1>4. AskTypeOK' /\ UiTypeOK'
  BY <1>1, <1>3, SameSetting, AskFacts DEF AskTypeOK, UiTypeOK
<1>5. PageInv'
  <2>1. PICK s : Settles(s, ForeignURL)
    BY <1>3
  <2>2. Calm(s) /\ LogInFrames' = Relogins(s)
        /\ Cardinality(Relogins(s)) + Fallback' <= Fallback + 0
    BY <1>2, <2>1 DEF Settles
  <2>3. Cardinality(Relogins(s)) \in {0, 1} /\ Fallback' \in {0, 1} /\ Opening' = Opening
    BY <1>1, <2>2, CalmOne DEF Fallback, Opening, NativeOpens, DisabledWaits
  <2>4. Spare \in Nat
    BY PromiseFacts, NilFacts
  <2>5. Cardinality(Relogins(s)) + Fallback' + Opening' <= Fallback + Opening + Spare
    BY SMTT(30), <2>2, <2>3, <2>4, PromiseFacts
  <2> QED BY <1>1, <1>3, <2>2, <2>5, AskFacts, EventPages
<1> QED BY <1>1, <1>3, <1>4, <1>5, IInvParts

(* The web dialog ends. *)
LEMMA WebDialogEndsStep ==
    ASSUME IInv, NEW url \in WebAnswers, WebDialogEnds(url)
    PROVE  IInv'
<1>1. /\ stack = <<>> /\ web' = Nil /\ CompleteLogIn(url, TRUE, state, <<>>)
      /\ UNCHANGED <<setting, nextAtt, gone, reauthsAt, pages, pendingURLOpen,
                     expectingBackground, safariVC, presenting, authSession, live, opens,
                     active, dismissing, dismissals, ending, outside, fallback, ui, leaving,
                     launchURL>>
  BY DEF WebDialogEnds, uiVars, appVars
<1>2. url \in AllURLs
  <2>1. web \in Pages /\ url \in TokenURLs(web) \cup {Bare("cancel"), Bare("error")}
    BY AskFacts DEF AskTypeOK, WebAnswers
  <2>2. TokenURLs(web) \subseteq AllTokenURLs
    BY <2>1 DEF AllTokenURLs
  <2> QED BY <2>1, <2>2, URLFacts
<1>3. KeyTypeOK' /\ KeyInv' /\ ManagerStep(<<>>)
  BY <1>1, <1>2, AskFacts, Completes
<1>4. CoreInv' /\ LogInFrames' = Relogins(<<>>) /\ NativeFrames' = {}
  BY <1>1, <1>3, CalmThen, EventCore
<1>5. PageInv'
  BY <1>1, <1>4, CalmThen, PlainPages
<1>6. AskTypeOK' /\ UiTypeOK'
  BY <1>1, SameSetting, AskFacts DEF AskTypeOK, UiTypeOK
<1> QED BY <1>1, <1>4, <1>5, <1>6, IInvParts

-----------------------------------------------------------------------------
(* Completions, and the application's coming and going                     *)

(* What one open less does to the pages promised. *)
LEMMA OpensRemove ==
    ASSUME IInv, NEW o \in opens, opens' = opens \ {o}, dismissals' = dismissals
    PROVE  /\ IsFiniteSet(opens') /\ opens' \subseteq opens /\ Opening' \in Nat
           /\ Opening' <= Opening
           /\ o.route = "native" => Opening' + 1 <= Opening
<1>0. /\ IsFiniteSet(opens) /\ IsFiniteSet(NativeOpens) /\ Cardinality(NativeOpens) \in Nat
      /\ Cardinality(DisabledWaits) \in Nat
  BY PromiseFacts, AskFacts
<1>1. IsFiniteSet(opens') /\ DisabledWaits' = DisabledWaits
  BY <1>0, FS_RemoveElement DEF DisabledWaits
<1>2. CASE o.route = "native"
  <2>1. NativeOpens' = NativeOpens \ {o} /\ o \in NativeOpens
    BY <1>2 DEF NativeOpens
  <2>2. Cardinality(NativeOpens') = Cardinality(NativeOpens) - 1
        /\ IsFiniteSet(NativeOpens')
    BY <1>0, <2>1, FS_RemoveElement
  <2>3. Cardinality(NativeOpens') \in Nat
    BY <2>2, FS_CardinalityType
  <2> QED BY <1>0, <1>1, <2>2, <2>3 DEF Opening
<1>3. CASE o.route # "native"
  <2>1. NativeOpens' = NativeOpens
    BY <1>3 DEF NativeOpens
  <2> QED BY <1>0, <1>1, <1>3, <2>1 DEF Opening
<1> QED BY <1>2, <1>3

(* A dispatched openURL completes; a native one that fails falls back to the browser. *)
LEMMA OpenURLCompletesStep ==
    ASSUME IInv, NEW o \in opens, NEW success \in BOOLEAN, OpenURLCompletes(o, success)
    PROVE  IInv'
<1>1. /\ stack = <<>> /\ opens' = opens \ {o}
      /\ UNCHANGED <<setting, nextAtt, gone, reauthsAt, keyVars, netVars, pages,
                     pendingURLOpen, expectingBackground, safariVC, presenting, authSession,
                     live, web, active, dismissing, dismissals, ending, fallback, ui,
                     launchURL>>
  BY DEF OpenURLCompletes, appVars
<1>2. o.ch \in Pages /\ o.route \in {"native", "browser"}
  BY AskFacts DEF AskTypeOK
<1>3. outside' \subseteq Pages /\ leaving' \in BOOLEAN
  BY <1>2, AskFacts DEF OpenURLCompletes, AskTypeOK, UiTypeOK
<1>4. AskTypeOK' /\ UiTypeOK'
  BY <1>1, <1>3, SameSetting, AskFacts DEF AskTypeOK, UiTypeOK
<1>5. /\ IsFiniteSet(opens') /\ opens' \subseteq opens /\ Opening' \in Nat
      /\ Opening' <= Opening /\ (o.route = "native" => Opening' + 1 <= Opening)
  BY <1>1, OpensRemove
<1>6. /\ Spare \in Nat /\ Fallback \in {0, 1} /\ Opening \in Nat /\ Fallback' = Fallback
      /\ IsFiniteSet(dismissals')
  BY <1>1, PromiseFacts, NilFacts, AskFacts DEF Fallback
<1>7. CASE ~success /\ o.route = "native"
  <2>1. NoHandler(state, Then("relogin"))
    BY <1>7 DEF OpenURLCompletes
  <2>2. ManagerStep(Then("relogin"))
    BY <2>1, AskFacts DEF ManagerStep
  <2>3. CoreInv' /\ LogInFrames' = Relogins(Then("relogin")) /\ NativeFrames' = {}
    BY <1>1, <2>2, CalmThen, QuietCore
  <2>4. Cardinality(Relogins(Then("relogin"))) = 1
    BY CalmThen, FS_Singleton
  <2>5. Cardinality(Relogins(Then("relogin"))) + Fallback' + Opening'
          <= Fallback + Opening + Spare
    <3>1. Opening' + 1 <= Opening
      BY <1>5, <1>7
    <3>2. PICK m \in Nat, n \in Nat, f \in Nat, k \in Nat :
             m = Opening' /\ n = Opening /\ f = Fallback /\ k = Spare
      BY <1>5, <1>6
    <3>3. m + 1 <= n
      BY <3>1, <3>2
    <3>4. 1 + f + m <= f + n + k
      BY <3>3
    <3>5. f = Fallback'
      BY <1>6, <3>2
    <3> QED BY <2>4, <3>2, <3>4, <3>5
  <2>6. PageInv'
    BY <1>1, <1>5, <1>6, <2>3, <2>5, CalmThen, EventPages
  <2> QED BY <1>1, <1>4, <2>3, <2>6, IInvParts
<1>8. CASE ~(~success /\ o.route = "native")
  <2>1. ManagerStep(<<>>)
    <3>1. NoHandler("Performing", <<>>) \/ InvokeHandler(Told("error", 0), <<>>)
      BY <1>8 DEF OpenURLCompletes
    <3>2. "Performing" \in States /\ Told("error", 0) \in Results
          /\ Told("error", 0).r = "error"
      BY ToldFacts DEF States
    <3> QED BY <3>1, <3>2 DEF ManagerStep, Tells
  <2>2. CoreInv' /\ LogInFrames' = Relogins(<<>>) /\ NativeFrames' = {}
    BY <1>1, <2>1, CalmThen, QuietCore
  <2>3. Cardinality(Relogins(<<>>)) = 0
    BY CalmThen, FS_EmptySet
  <2>4. Cardinality(Relogins(<<>>)) + Fallback' + Opening' <= Fallback + Opening + Spare
    BY <1>5, <1>6, <2>3
  <2>5. PageInv'
    BY <1>1, <1>5, <1>6, <2>2, <2>4, CalmThen, EventPages
  <2> QED BY <1>1, <1>4, <2>2, <2>5, IInvParts
<1> QED BY <1>7, <1>8

(* The requests for me and me/permissions complete. *)
LEMMA MeCompletesStep ==
    ASSUME IInv, NEW m \in mes, NEW ok \in BOOLEAN, MeCompletes(m, ok)
    PROVE  IInv'
<1> DEFINE p == IF ok THEN m.url ELSE Bare("error")
<1>1. /\ stack = <<>> /\ mes' = mes \ {m} /\ CompleteAuthentication(p, m.own, state, <<>>)
      /\ UNCHANGED <<askVars, uiVars, appVars>>
  BY DEF MeCompletes
<1>2. /\ mes \subseteq [url : AllTokenURLs, own : BOOLEAN] /\ m.url \in AllTokenURLs
      /\ m.own \in BOOLEAN
  BY DEF IInv, TypeOK, KeyTypeOK
<1>3. p.kind = "token" => p \in AllTokenURLs
  BY <1>2, URLFacts
<1> HIDE DEF p
<1>4. UNCHANGED <<setting, nextAtt, pages, reauthsAt, opens, dismissals, fallback>>
  BY <1>1 DEF askVars, uiVars, appVars
<1>5. KeyTypes' /\ KeyInv' /\ ManagerStep(<<>>)
  BY <1>1, <1>2, <1>3, <1>4, AskFacts, Authenticates
<1>6. mes' \subseteq [url : AllTokenURLs, own : BOOLEAN]'
  BY <1>1, <1>2, <1>4, SameSetting
<1>7. CoreInv' /\ LogInFrames' = Relogins(<<>>) /\ NativeFrames' = {}
  <2>1. KeyTypeOK'
    BY <1>5, <1>6 DEF KeyTypes, KeyTypeOK
  <2> QED BY <1>1, <1>4, <1>5, <2>1, CalmThen, EventCore
<1>8. PageInv'
  BY <1>1, <1>4, <1>7, CalmThen, PlainPages
<1>9. AskTypeOK' /\ UiTypeOK'
  BY <1>1, SameSetting, AskFacts DEF AskTypeOK, UiTypeOK, askVars, uiVars, appVars
<1> QED BY <1>4, <1>7, <1>8, <1>9, IInvParts

(* validateReauthentication: uses up the page whose answer it validated. *)
LEMMA ReauthCompletesStep ==
    ASSUME IInv, NEW r \in reauths, NEW ok \in BOOLEAN, ReauthCompletes(r, ok)
    PROVE  IInv'
<1> USE NilFacts
<1>1. /\ stack = <<>> /\ reauths' = reauths \ {r} /\ mes' = mes /\ challenge' = challenge
      /\ UNCHANGED <<askVars, uiVars, appVars>>
  BY DEF ReauthCompletes
<1>2. UNCHANGED <<setting, nextAtt, pages, reauthsAt, opens, dismissals, fallback>>
  BY <1>1 DEF askVars, uiVars, appVars
<1>3. /\ KeyTypes /\ KeyInv /\ Tokens' = Tokens /\ Users' = Users
      /\ mes \subseteq [url : AllTokenURLs, own : BOOLEAN] /\ AllTokenURLs' = AllTokenURLs
  BY <1>2, SameSetting DEF IInv, TypeOK, KeyTypeOK, KeyTypes, KeyInv
<1>4. r.ch \in Pages /\ r.user \in Users /\ r.own \in BOOLEAN /\ Validated(r.ch)
  BY <1>3 DEF KeyTypes, KeyInv, ChallengeInv
<1>5. \A x \in reauths' : x \in reauths /\ x.ch \in Pages /\ x.ch # r.ch
  BY <1>1, <1>3 DEF KeyTypes, KeyInv, ChallengeInv
<1>6. ASSUME SameUser(r, ok)
      PROVE  CoreInv' /\ LogInFrames' = Relogins(<<>>) /\ NativeFrames' = {}
  <2> DEFINE t == [user |-> r.user, ch |-> r.ch]
  <2>1. /\ token' = t /\ cache' = t /\ used' = [used EXCEPT ![r.ch] = used[r.ch] + 1]
        /\ ManagerDone(r.own, Told("token", r.ch), <<>>)
    BY <1>6 DEF ReauthCompletes, SetCurrentAccessToken
  <2>2. t \in Tokens
    BY <1>4 DEF Tokens
  <2> HIDE DEF t
  <2>3. handler' = handler
    BY <2>1 DEF ManagerDone, NoHandler, InvokeHandler
  <2>4. /\ used' \in [Pages -> Nat] /\ used'[r.ch] = 1 /\ r.ch \in 1..Len(pages)
        /\ \A ch \in Pages : ch # r.ch => used'[ch] = used[ch]
    BY <1>3, <1>4, <2>1 DEF KeyTypes, Validated
  <2>5. KeyTypeOK'
    BY <1>1, <1>3, <2>1, <2>2, <2>4 DEF KeyTypes, KeyTypeOK
  <2>6. KeyInv'
    <3>1. \A x \in reauths' : Validated(x.ch)'
      BY <1>2, <1>3, <1>5, <2>3, <2>4 DEF KeyInv, ChallengeInv, Validated
    <3>2. challenge # Nil => challenge \in Pages /\ challenge # r.ch
      BY <1>3 DEF KeyTypes, KeyInv, ChallengeInv
    <3>3. challenge # Nil => Expected(challenge)'
      BY <1>1, <1>2, <1>3, <2>3, <2>4, <3>2 DEF KeyInv, ChallengeInv, Expected
    <3>4. \A ch \in Pages : used'[ch] <= 1 /\ (ch > Len(pages) => used'[ch] = 0)
      BY <1>3, <2>4 DEF KeyInv, ChallengeInv, ChallengeUsedOnce
    <3> QED BY <1>1, <1>2, <1>3, <1>5, <3>1, <3>3, <3>4
            DEF KeyInv, ChallengeInv, ChallengeUsedOnce
  <2>7. ManagerStep(<<>>)
    <3>1. OwnPage(r.ch)
      BY <1>4 DEF Validated, OwnPage
    <3>2. Told("token", r.ch) \in Results /\ Told("token", r.ch).ch = r.ch
      BY <1>4, ToldFacts
    <3>3. Tells(Told("token", r.ch), <<>>) \/ NoHandler(state, <<>>)
      BY <2>1, <3>1, <3>2 DEF ManagerDone, Tells
    <3> QED BY <3>2, <3>3, AskFacts DEF ManagerStep
  <2>8. CoreInv' /\ LogInFrames' = Relogins(<<>>) /\ NativeFrames' = {}
    BY <1>1, <1>2, <2>5, <2>6, <2>7, CalmThen, EventCore
  <2> QED BY <2>8
<1>7. ASSUME ~SameUser(r, ok)
      PROVE  CoreInv' /\ LogInFrames' = Relogins(<<>>) /\ NativeFrames' = {}
  <2>1. UNCHANGED <<token, cache, used>> /\ ManagerDone(r.own, Told("error", 0), <<>>)
    BY <1>7 DEF ReauthCompletes
  <2>2. handler' = handler
    BY <2>1 DEF ManagerDone, NoHandler, InvokeHandler
  <2>3. KeyTypes' /\ KeyInv'
    BY <1>1, <1>2, <2>1, <2>2, KeysKept DEF keyVars
  <2>4. KeyTypeOK'
    BY <1>1, <1>3, <2>3 DEF KeyTypes, KeyTypeOK
  <2>5. ManagerStep(<<>>)
    <3>1. Told("error", 0) \in Results /\ Told("error", 0).r = "error"
      BY ToldFacts
    <3>2. Tells(Told("error", 0), <<>>) \/ NoHandler(state, <<>>)
      BY <2>1, <3>1 DEF ManagerDone, Tells
    <3> QED BY <3>1, <3>2, AskFacts DEF ManagerStep
  <2>6. CoreInv' /\ LogInFrames' = Relogins(<<>>) /\ NativeFrames' = {}
    BY <1>1, <1>2, <2>3, <2>4, <2>5, CalmThen, EventCore
  <2> QED BY <2>6
<1>8. CoreInv' /\ LogInFrames' = Relogins(<<>>) /\ NativeFrames' = {}
  BY <1>6, <1>7
<1>9. PageInv'
  BY <1>1, <1>2, <1>8, CalmThen, PlainPages
<1>10. AskTypeOK' /\ UiTypeOK'
  BY <1>1, SameSetting, AskFacts DEF AskTypeOK, UiTypeOK, askVars, uiVars, appVars
<1> QED BY <1>2, <1>8, <1>9, <1>10, IInvParts

(* The app goes to the background. *)
LEMMA DidEnterBackgroundStep ==
    ASSUME IInv, DidEnterBackground
    PROVE  IInv'
<1>1. /\ stack = <<>> /\ NoHandler(state, <<>>) /\ ui' = "background" /\ active' = FALSE
      /\ expectingBackground' = FALSE /\ leaving' = FALSE
      /\ UNCHANGED <<setting, nextAtt, gone, reauthsAt, keyVars, netVars, pages,
                     pendingURLOpen, safariVC, presenting, authSession, live, opens, web,
                     dismissing, dismissals, ending, outside, fallback, launchURL>>
  BY DEF DidEnterBackground, NoHandler, mgrVars, appVars
<1>2. ManagerStep(<<>>)
  BY <1>1, AskFacts DEF ManagerStep
<1>3. CoreInv' /\ LogInFrames' = Relogins(<<>>) /\ NativeFrames' = {}
  BY <1>1, <1>2, CalmThen, QuietCore
<1>4. PageInv'
  BY <1>1, <1>3, CalmThen, PlainPages
<1>5. AskTypeOK' /\ UiTypeOK'
  BY <1>1, SameSetting, AskFacts DEF AskTypeOK, UiTypeOK
<1> QED BY <1>1, <1>3, <1>4, <1>5, IInvParts

(* A waiting fallback becomes a frame. *)
LEMMA FallbackPages ==
    ASSUME IInv, stack = <<>>, UNCHANGED <<pages, opens, dismissals>>,
           NEW rest, Calm(rest), LogInFrames' = Relogins(rest), NativeFrames' = {},
           \/ Relogins(rest) = {} /\ (fallback = "none" => fallback' = "none")
           \/ fallback # "none" /\ fallback' = "none"
    PROVE  PageInv'
<1>1. Opening' = Opening
  BY DEF Opening, NativeOpens, DisabledWaits
<1>2. /\ Cardinality(Relogins(rest)) \in {0, 1}
      /\ Relogins(rest) = {} => Cardinality(Relogins(rest)) = 0
  BY CalmOne, FS_EmptySet
<1>3. Cardinality(Relogins(rest)) + Fallback' <= Fallback
  BY <1>2 DEF Fallback
<1>4. Spare \in Nat /\ Fallback \in {0, 1} /\ Opening \in Nat /\ Fallback' \in {0, 1}
  BY PromiseFacts, NilFacts DEF Fallback
<1>5. Cardinality(Relogins(rest)) + Fallback' + Opening' <= Fallback + Opening + Spare
  BY <1>1, <1>2, <1>3, <1>4
<1> QED BY <1>5, AskFacts, EventPages

(* The app becomes active, which may cancel a login or let a fallback go ahead. *)
LEMMA DidBecomeActiveStep ==
    ASSUME IInv, DidBecomeActive
    PROVE  IInv'
<1> DEFINE notExpectingBackground == /\ ~expectingBackground /\ ~dismissing
                                     /\ safariVC = Nil /\ authSession = Nil
           goAhead == fallback = "observer" /\ notExpectingBackground
           Rest(first) == IF goAhead /\ first THEN Then("relogin") ELSE <<>>
<1>1. /\ stack = <<>> /\ ui' = "active" /\ active' = (active \/ notExpectingBackground)
      /\ UNCHANGED <<keyVars, askVars, netVars, dismissing, dismissals, ending, outside,
                     leaving, launchURL, appVars>>
  BY DEF DidBecomeActive
<1>2. PICK first \in BOOLEAN :
        /\ fallback' = IF fallback # "observer" THEN fallback
                       ELSE IF goAhead /\ first THEN "none" ELSE "spin"
        /\ ImplicitCancel(Rest(first)) \/ NoHandler(state, Rest(first))
  BY DEF DidBecomeActive
<1> DEFINE rest == Rest(first)
<1>3. UNCHANGED <<setting, nextAtt, reauthsAt, pages, opens>>
  BY <1>1 DEF askVars, appVars
<1>4. /\ Calm(rest)
      /\ \/ Relogins(rest) = {} /\ (fallback = "none" => fallback' = "none")
         \/ fallback # "none" /\ fallback' = "none"
  BY <1>2, CalmThen
<1>5. active' \in BOOLEAN /\ fallback' \in {"none", "observer", "spin"}
  BY <1>1, <1>2, AskFacts DEF UiTypeOK
<1>6. ImplicitCancel(rest) \/ NoHandler(state, rest)
  BY <1>2
<1> HIDE DEF rest
<1>7. ManagerStep(rest)
  BY <1>6, AskFacts, CancelledFacts DEF ManagerStep
<1>8. CoreInv' /\ LogInFrames' = Relogins(rest) /\ NativeFrames' = {}
  BY <1>1, <1>3, <1>4, <1>7, QuietCore
<1>9. PageInv'
  BY <1>1, <1>3, <1>4, <1>8, FallbackPages
<1>10. AskTypeOK'
  BY <1>1, SameSetting, AskFacts DEF AskTypeOK, askVars, appVars
<1>11. UiTypeOK'
  BY <1>1, <1>5, SameSetting, AskFacts DEF UiTypeOK, appVars
<1> QED BY <1>3, <1>8, <1>9, <1>10, <1>11, IInvParts

(* The fallback that polled goes ahead. *)
LEMMA AttemptBrowserLogInStep ==
    ASSUME IInv, AttemptBrowserLogIn
    PROVE  IInv'
<1>1. /\ stack = <<>> /\ fallback = "spin" /\ fallback' = "none"
      /\ NoHandler(state, Then("relogin"))
      /\ UNCHANGED <<keyVars, askVars, netVars, active, dismissing, dismissals, ending,
                     outside, ui, leaving, launchURL, appVars>>
  BY DEF AttemptBrowserLogIn
<1>2. UNCHANGED <<setting, nextAtt, reauthsAt, pages, opens>>
  BY <1>1 DEF askVars, appVars
<1>3. ManagerStep(Then("relogin"))
  BY <1>1, AskFacts DEF ManagerStep
<1>4. CoreInv' /\ LogInFrames' = Relogins(Then("relogin")) /\ NativeFrames' = {}
  BY <1>1, <1>2, <1>3, CalmThen, QuietCore
<1>5. PageInv'
  BY <1>1, <1>2, <1>4, CalmThen, FallbackPages
<1>6. AskTypeOK'
  BY <1>1, SameSetting, AskFacts DEF AskTypeOK, askVars, appVars
<1>7. UiTypeOK'
  BY <1>1, SameSetting, AskFacts DEF UiTypeOK, appVars
<1> QED BY <1>2, <1>4, <1>5, <1>6, <1>7, IInvParts

(* The process dies: nobody waits for a token, but the challenge is still expected. *)
LEMMA RelaunchStep ==
    ASSUME IInv, NEW url \in {Nil} \cup UNION {Answers(ch) : ch \in Elsewhere}, Relaunch(url)
    PROVE  IInv'
<1> USE NilFacts
<1>1. /\ state' = "Idle" /\ handler' = Nil /\ launchURL' = url
      /\ token' = (IF HostForwardsOpenURL THEN cache ELSE Nil)
      /\ stack' = (IF url = Nil THEN <<>> ELSE Then("launch"))
      /\ UNCHANGED <<told, challenge, cache, used, pages, ui, setting, nextAtt, reauthsAt>>
      /\ fallback' = "none" /\ opens' = {} /\ dismissals' = {} /\ mes' = {} /\ reauths' = {}
  BY DEF Relaunch
<1>2. Elsewhere \subseteq Pages
  BY AskFacts DEF Elsewhere, AskTypeOK
<1>3. url \in AllURLs \cup {Nil}
  BY <1>2, AnswersFacts
<1>4. /\ Users' = Users /\ Routes' = Routes /\ Tokens' = Tokens /\ Frames' = Frames
      /\ AllTokenURLs' = AllTokenURLs /\ AllURLs' = AllURLs
  BY <1>1, SameSetting
<1> DEFINE f == Frame("launch", Nil, Nil)
<1>5. f \in Frames /\ f.k = "launch"
  BY FrameType
<1> HIDE DEF f
<1>6. \/ stack' = <<>>
      \/ stack' = <<f>> /\ launchURL' # Nil
  BY <1>1 DEF f, Then
<1>7. stack' \in Seq(Frames) /\ \A i \in 1..Len(stack') : stack'[i] = f
  <2>1. <<f>> \in Seq(Frames) /\ Len(<<f>>) = 1 /\ <<f>>[1] = f
    BY <1>5
  <2>2. <<>> \in Seq(Frames) /\ Len(<<>>) = 0
    OBVIOUS
  <2>3. CASE stack' = <<>>
    BY <2>2, <2>3
  <2>4. CASE stack' = <<f>>
    <3>1. Len(stack') = 1 /\ stack'[1] = f /\ stack' \in Seq(Frames)
      BY <2>1, <2>4
    <3> QED BY <3>1
  <2> QED BY <1>6, <2>3, <2>4
<1>8. MgrTypeOK'
  BY <1>1, <1>4, <1>7 DEF IInv, TypeOK, MgrTypeOK, States
<1>9. FrameInv'
  BY <1>5, <1>6, <1>7 DEF FrameInv
<1>10. HandlerInv' /\ HandlerAtMostOnce'
  BY <1>1 DEF IInv, HandlerInv, HandlerAtMostOnce
<1>11. ToldInv' /\ TokenFromOwnPage'
  BY <1>1, ToldKept
<1>12. KeyTypeOK'
  BY <1>1, <1>4 DEF IInv, TypeOK, KeyTypeOK
<1>13. KeyInv'
  <2>1. challenge # Nil => Expected(challenge)'
    BY <1>1 DEF IInv, ChallengeInv, Expected
  <2> QED BY <1>1, <2>1 DEF IInv, KeyInv, ChallengeInv, ChallengeUsedOnce
<1>14. AskTypeOK'
  BY <1>1, <1>2, <1>4, AskFacts DEF Relaunch, AskTypeOK
<1>15. UiTypeOK'
  <2>1. 1..(nextAtt - 1) \subseteq Logins
    BY AskFacts DEF UiTypeOK, Logins
  <2>2. gone' \subseteq Logins
    BY <2>1, AskFacts DEF Relaunch, UiTypeOK
  <2> QED BY <1>1, <1>3, <1>4, <2>2, AskFacts DEF Relaunch, UiTypeOK
<1>16. PageInv'
  <2>1. \A g \in FramesOf(stack') : g = f
    BY <1>7 DEF FramesOf
  <2>2. /\ LogInFrames' = {} /\ NativeFrames' = {} /\ NativeOpens' = {} /\ DisabledWaits' = {}
    BY <1>1, <1>5, <2>1 DEF LogInFrames, NativeFrames, NativeOpens, DisabledWaits
  <2>3. Promised' = 0
    BY <1>1, <2>2, FS_EmptySet DEF Promised
  <2>4. Spare' >= 0
    BY <1>1, <2>3, PromiseFacts, AskFacts DEF Spare, AskTypeOK
  <2> QED BY <1>1, <2>4, FS_EmptySet DEF PageInv
<1> QED BY <1>1, <1>8, <1>9, <1>10, <1>11, <1>12, <1>13, <1>14, <1>15, <1>16, IInvParts
        DEF CoreInv

-----------------------------------------------------------------------------
(* Frames return.                                                          *)

(* A handler that was called is in _handler only while it, or a login it began, is on
   top of the stack. *)
LEMMA HandlerFree ==
    ASSUME IInv, stack # <<>>, Head(stack).k \notin {"handler", "login"}, handler # Nil
    PROVE  told[handler] = <<>>
<1>1. stack \in Seq(Frames)
  BY DEF IInv, TypeOK, MgrTypeOK
<1>2. Head(stack) = stack[1]
  BY <1>1, Uncons
<1> QED BY <1>2 DEF IInv, HandlerInv, Runs, Running

(* The manager made at launch has no handler to call. *)
LEMMA LaunchWithURLStep ==
    ASSUME IInv, LaunchWithURL
    PROVE  IInv'
<1> USE NilFacts
<1>1. /\ Running("launch") /\ launchURL' = Nil
      /\ CompleteLogIn(launchURL, FALSE, state, <<>>)
      /\ UNCHANGED <<askVars, active, dismissing, dismissals, ending, outside, fallback, ui,
                     leaving, appVars>>
  BY DEF LaunchWithURL
<1>2. UNCHANGED <<setting, nextAtt, pages, reauthsAt, opens, gone>>
  BY <1>1 DEF askVars, appVars
<1>3. stack \in Seq(Frames) /\ stack # <<>> /\ Head(stack).k = "launch"
  BY <1>1 DEF IInv, TypeOK, MgrTypeOK, Running
<1>4. launchURL \in AllURLs
  <2>1. stack[1].k = "launch" /\ 1 \in 1..Len(stack)
    BY <1>3, Uncons
  <2>2. launchURL # Nil
    BY <2>1 DEF IInv, FrameInv
  <2> QED BY <2>2, AskFacts DEF UiTypeOK
<1>5. KeyTypeOK' /\ KeyInv' /\ \E s \in States : NoHandler(s, <<>>)
  BY <1>1, <1>2, <1>4, AskFacts, Completes
<1>6. PICK s \in States : state' = s /\ stack' = <<>> /\ handler' = handler /\ told' = told
  BY <1>5 DEF NoHandler
<1>7. handler # Nil => told[handler] = <<>>
  BY <1>3, HandlerFree
<1>8. /\ MgrTypeOK' /\ FrameInv'
  BY <1>2, <1>6 DEF IInv, TypeOK, MgrTypeOK, FrameInv
<1>9. HandlerInv' /\ HandlerAtMostOnce'
  BY <1>2, <1>6, <1>7 DEF IInv, HandlerInv, HandlerAtMostOnce
<1>10. ToldInv' /\ TokenFromOwnPage'
  BY <1>2, <1>6, ToldKept
<1>11. AskTypeOK' /\ UiTypeOK'
  BY <1>1, SameSetting, AskFacts DEF AskTypeOK, UiTypeOK, askVars, appVars
<1>12. PageInv'
  <2>1. LogInFrames' = {} /\ NativeFrames' = {}
    BY <1>6 DEF LogInFrames, NativeFrames, FramesOf
  <2>2. Opening' = Opening /\ Fallback' = Fallback
    BY <1>1, <1>2 DEF Opening, Fallback, NativeOpens, DisabledWaits
  <2>3. NativeOpens' = NativeOpens /\ DisabledWaits' = DisabledWaits
    BY <1>1, <1>2 DEF NativeOpens, DisabledWaits
  <2>4. Promised' = Opening + Fallback
    BY <1>1, <2>1, <2>3, FS_EmptySet, PromiseFacts DEF Promised, Opening, Fallback
  <2>5. Opening + Fallback <= Promised /\ Opening + Fallback \in Nat /\ Promised \in Nat
    BY SMTT(30), PromiseFacts
  <2>6. Spare' = MaxChallenges - Len(pages) - (Opening + Fallback)
    BY <1>2, <2>4 DEF Spare
  <2>7. Spare' >= 0
    BY <2>5, <2>6, PromiseFacts
  <2> QED BY <1>1, <1>2, <2>7 DEF IInv, PageInv
<1> QED BY <1>2, <1>5, <1>8, <1>9, <1>10, <1>11, <1>12, IInvParts DEF CoreInv

(* The frame on top goes. *)
LEMMA PopManager ==
    ASSUME IInv, stack # <<>>, stack' = Tail(stack),
           UNCHANGED <<setting, told, nextAtt, launchURL>>,
           state' \in States, handler' \in Logins \cup {Nil},
           handler' # Nil => handler' < nextAtt /\ told[handler'] = <<>>,
           \A i \in 2..Len(stack) : stack[i].k = "login" => stack[i].a # handler'
    PROVE  MgrTypeOK' /\ FrameInv' /\ HandlerInv' /\ HandlerAtMostOnce'
<1>0. Frames' = Frames /\ stack \in Seq(Frames) /\ Routes' = Routes
  BY SameSetting DEF IInv, TypeOK, MgrTypeOK
<1> DEFINE t == Tail(stack)
<1>1. /\ t \in Seq(Frames) /\ Len(stack) \in Nat \ {0} /\ Len(t) = Len(stack) - 1
      /\ \A i \in 1..Len(t) : i + 1 \in 1..Len(stack) /\ t[i] = stack[i + 1]
  BY <1>0, Uncons
<1>2. stack' = t
  OBVIOUS
<1> HIDE DEF t
<1>3. MgrTypeOK'
  BY <1>0, <1>1, <1>2 DEF IInv, TypeOK, MgrTypeOK
<1>4. FrameInv'
  <2>1. ASSUME NEW i \in 1..Len(t)
        PROVE  /\ t[i].k = "login" =>
                     /\ t[i].a \in 1..(nextAtt - 1) /\ t[i].route \in Routes
                     /\ t[i].a # handler' /\ told[t[i].a] = <<>>
                     /\ \A j \in 1..Len(t) : t[j].k = "login" /\ t[j].a = t[i].a => i = j
               /\ t[i].k = "relogin" => \A j \in 1..Len(t) : t[j].k = "relogin" => i = j
               /\ t[i].k = "launch" => launchURL # Nil
    <3>1. i \in Nat /\ i + 1 \in 1..Len(stack) /\ i + 1 \in 2..Len(stack) /\ t[i] = stack[i + 1]
      BY <1>1
    <3>2. \A j \in 1..Len(t) :
             /\ j \in Nat /\ j + 1 \in 1..Len(stack) /\ t[j] = stack[j + 1]
             /\ i + 1 = j + 1 => i = j
      BY <1>1
    <3>3. /\ stack[i + 1].k = "login" =>
                /\ stack[i + 1].a \in 1..(nextAtt - 1) /\ stack[i + 1].route \in Routes
                /\ told[stack[i + 1].a] = <<>>
                /\ \A j \in 1..Len(stack) :
                      stack[j].k = "login" /\ stack[j].a = stack[i + 1].a => i + 1 = j
          /\ stack[i + 1].k = "relogin" =>
                \A j \in 1..Len(stack) : stack[j].k = "relogin" => i + 1 = j
          /\ stack[i + 1].k = "launch" => launchURL # Nil
      BY <3>1 DEF IInv, FrameInv
    <3> QED BY <3>1, <3>2, <3>3
  <2> QED BY <1>0, <1>2, <2>1 DEF FrameInv
<1>5. HandlerInv' /\ HandlerAtMostOnce'
  BY DEF IInv, HandlerInv, HandlerAtMostOnce
<1> QED BY <1>3, <1>4, <1>5

(* ... and with it the pages it was promised. *)
LEMMA PopFrames ==
    ASSUME IInv, stack # <<>>, stack' = Tail(stack)
    PROVE  /\ IsFiniteSet(LogInFrames') /\ IsFiniteSet(NativeFrames')
           /\ Cardinality(LogInFrames') \in Nat /\ Cardinality(NativeFrames') \in Nat
           /\ Cardinality(LogInFrames') <= Cardinality(LogInFrames)
           /\ Cardinality(NativeFrames') <= Cardinality(NativeFrames)
           /\ Head(stack).k \in {"login", "relogin"} =>
                 Cardinality(LogInFrames') + 1 = Cardinality(LogInFrames)
           /\ Head(stack).k = "login" /\ Head(stack).route = "native" =>
                 Cardinality(NativeFrames') + 1 = Cardinality(NativeFrames)
<1> DEFINE t == Tail(stack)
           h == Head(stack)
<1>0. stack \in Seq(Frames)
  BY DEF IInv, TypeOK, MgrTypeOK
<1>1. /\ t \in Seq(Frames) /\ Len(stack) \in Nat \ {0} /\ Len(t) = Len(stack) - 1
      /\ \A i \in 1..Len(t) : i + 1 \in 1..Len(stack) /\ t[i] = stack[i + 1]
      /\ h = stack[1] /\ FramesOf(stack) = {h} \cup FramesOf(t)
  BY <1>0, Uncons
<1>2. stack' = t
  OBVIOUS
<1> HIDE DEF t, h
<1>3. ASSUME NEW i \in 1..Len(t), t[i].k = h.k, h.k \in {"login", "relogin"}
      PROVE  t[i] # h
  <2>1. i + 1 \in 1..Len(stack) /\ 1 \in 1..Len(stack) /\ i + 1 # 1 /\ t[i] = stack[i + 1]
    BY <1>1
  <2> QED BY <1>1, <1>3, <2>1 DEF IInv, FrameInv
<1>4. h.k \in {"login", "relogin"} => h \notin FramesOf(t)
  BY <1>3 DEF FramesOf
<1>5. LogInFrames' \subseteq LogInFrames /\ NativeFrames' \subseteq NativeFrames
  BY <1>1, <1>2 DEF LogInFrames, NativeFrames
<1>6. h.k \in {"login", "relogin"} => h \in LogInFrames /\ LogInFrames' = LogInFrames \ {h}
  BY <1>1, <1>2, <1>4 DEF LogInFrames
<1>7. h.k = "login" /\ h.route = "native" =>
         h \in NativeFrames /\ NativeFrames' = NativeFrames \ {h}
  BY <1>1, <1>2, <1>4 DEF NativeFrames
<1>8. /\ IsFiniteSet(LogInFrames) /\ IsFiniteSet(NativeFrames)
      /\ Cardinality(LogInFrames) \in Nat /\ Cardinality(NativeFrames) \in Nat
  BY PromiseFacts
<1>9. /\ IsFiniteSet(LogInFrames') /\ Cardinality(LogInFrames') <= Cardinality(LogInFrames)
      /\ IsFiniteSet(NativeFrames') /\ Cardinality(NativeFrames') <= Cardinality(NativeFrames)
  BY <1>5, <1>8, FS_Subset
<1>10. Cardinality(LogInFrames') \in Nat /\ Cardinality(NativeFrames') \in Nat
  BY <1>9, FS_CardinalityType
<1>11. h.k \in {"login", "relogin"} =>
          Cardinality(LogInFrames') = Cardinality(LogInFrames) - 1
  BY <1>6, <1>8, FS_RemoveElement
<1>12. h.k = "login" /\ h.route = "native" =>
          Cardinality(NativeFrames') = Cardinality(NativeFrames) - 1
  BY <1>7, <1>8, FS_RemoveElement
<1>13. h.k \in {"login", "relogin"} =>
          Cardinality(LogInFrames') + 1 = Cardinality(LogInFrames)
  BY <1>8, <1>11
<1>14. h.k = "login" /\ h.route = "native" =>
          Cardinality(NativeFrames') + 1 = Cardinality(NativeFrames)
  BY <1>8, <1>12
<1> QED BY <1>9, <1>10, <1>13, <1>14 DEF h

(* A frame that opens no page returns. *)
LEMMA PopPages ==
    ASSUME IInv, stack # <<>>, stack' = Tail(stack),
           UNCHANGED <<pages, opens, dismissals, fallback>>
    PROVE  PageInv'
<1>1. NativeOpens' = NativeOpens /\ DisabledWaits' = DisabledWaits
  BY DEF NativeOpens, DisabledWaits
<1>2. PICK l \in Nat, n \in Nat, o \in Nat, d \in Nat, b \in {0, 1} :
         /\ l = Cardinality(LogInFrames) /\ n = Cardinality(NativeFrames)
         /\ o = Cardinality(NativeOpens) /\ d = Cardinality(DisabledWaits) /\ b = Fallback
  BY PromiseFacts
<1>3. PICK m \in Nat, k \in Nat :
         /\ m = Cardinality(LogInFrames') /\ k = Cardinality(NativeFrames')
         /\ m <= l /\ k <= n
  BY <1>2, PopFrames
<1>4. Promised' = m + k + o + d + b
  BY <1>1, <1>2, <1>3 DEF Promised, Fallback
<1>5. Promised = l + n + o + d + b
  BY <1>2 DEF Promised, Fallback
<1>6. PICK p \in Nat : p = Len(pages) /\ p + (l + n + o + d + b) <= MaxChallenges
  BY <1>5, PromiseFacts
<1>7. Spare' = MaxChallenges - p - (m + k + o + d + b)
  BY <1>4, <1>6 DEF Spare
<1>8. MaxChallenges - p - (m + k + o + d + b) >= 0
  <2>1. m <= l /\ k <= n
    BY <1>3
  <2>2. p + (l + n + o + d + b) <= MaxChallenges /\ MaxChallenges \in Nat
    BY <1>6, NilFacts
  <2> QED BY <2>1, <2>2
<1>9. Spare' >= 0
  BY <1>7, <1>8
<1> QED BY <1>9 DEF IInv, PageInv

(* A handler returns: it is forgotten, or was replaced by one nobody has called. *)
LEMMA HandlerReturnsStep ==
    ASSUME IInv, HandlerReturns
    PROVE  IInv'
<1> USE NilFacts
<1>1. /\ Running("handler") /\ stack' = Tail(stack) /\ handler' = HandlerAfter(Head(stack).a)
      /\ UNCHANGED <<state, told, keyVars, askVars, netVars, uiVars, appVars>>
  BY DEF HandlerReturns
<1>2. UNCHANGED <<setting, nextAtt, pages, reauthsAt, opens, dismissals, fallback, launchURL>>
  BY <1>1 DEF askVars, uiVars, appVars
<1>3. /\ stack # <<>> /\ Head(stack).k = "handler" /\ stack \in Seq(Frames)
      /\ handler \in Logins \cup {Nil} /\ state \in States
  BY <1>1 DEF IInv, TypeOK, MgrTypeOK, Running
<1>4. handler' = Nil \/ (handler' = handler /\ handler # Head(stack).a)
  BY <1>1 DEF HandlerAfter
<1>5. Head(stack) = stack[1]
  BY <1>3, Uncons
<1>6. handler' # Nil => handler' < nextAtt /\ told[handler'] = <<>>
  BY <1>3, <1>4, <1>5 DEF IInv, HandlerInv, Runs, Running
<1>7. \A i \in 2..Len(stack) : stack[i].k = "login" => stack[i].a # handler'
  <2> SUFFICES ASSUME NEW i \in 2..Len(stack), stack[i].k = "login" PROVE stack[i].a # handler'
    OBVIOUS
  <2>1. i \in 1..Len(stack) /\ stack[i] \in Frames
    BY <1>3
  <2>2. stack[i].a # handler /\ stack[i].a \in 1..(nextAtt - 1)
    BY <2>1 DEF IInv, FrameInv
  <2>3. stack[i].a # Nil
    BY <2>2, AskFacts DEF UiTypeOK, Logins
  <2> QED BY <1>4, <2>2, <2>3
<1>8. MgrTypeOK' /\ FrameInv' /\ HandlerInv' /\ HandlerAtMostOnce'
  BY <1>1, <1>2, <1>3, <1>4, <1>6, <1>7, PopManager
<1>9. ToldInv' /\ TokenFromOwnPage'
  BY <1>1, <1>2, ToldKept
<1>10. PageInv'
  BY <1>1, <1>2, <1>3, PopPages
<1>11. KeyTypeOK'
  BY <1>1, <1>2, SameSetting DEF IInv, TypeOK, KeyTypeOK, keyVars, netVars
<1>12. KeyInv'
  <2>1. \A ch : (Expected(ch) => Expected(ch)') /\ (Validated(ch) => Validated(ch)')
    BY <1>1, <1>2, <1>4 DEF Expected, Validated, keyVars
  <2> QED BY <1>1, <1>2, <2>1
          DEF IInv, KeyInv, ChallengeInv, ChallengeUsedOnce, keyVars, netVars
<1>13. AskTypeOK' /\ UiTypeOK'
  BY <1>1, SameSetting, AskFacts DEF AskTypeOK, UiTypeOK, askVars, uiVars, appVars
<1> QED BY <1>2, <1>8, <1>9, <1>10, <1>11, <1>12, <1>13, IInvParts DEF CoreInv

(* The caller of the manager lets go of its page. *)
LEMMA CallerReturnsStep ==
    ASSUME IInv, CallerReturns
    PROVE  IInv'
<1> USE NilFacts
<1>1. /\ Running("endSession") \/ Running("endSafari")
      /\ stack' = Tail(stack)
      /\ UNCHANGED <<setting, nextAtt, gone, reauthsAt, state, handler, told, keyVars, pages,
                     pendingURLOpen, expectingBackground, presenting, opens, web, netVars,
                     active, dismissing, dismissals, ending, fallback, ui, leaving, launchURL>>
  BY DEF CallerReturns, appVars
<1>2. /\ stack # <<>> /\ Head(stack).k \in {"endSession", "endSafari"} /\ stack \in Seq(Frames)
      /\ handler \in Logins \cup {Nil} /\ state \in States
  BY <1>1 DEF IInv, TypeOK, MgrTypeOK, Running
<1>3. handler # Nil => handler < nextAtt /\ told[handler] = <<>>
  <2>1. handler # Nil => told[handler] = <<>>
    BY <1>2, HandlerFree
  <2> QED BY <2>1 DEF IInv, HandlerInv
<1>4. \A i \in 2..Len(stack) : stack[i].k = "login" => stack[i].a # handler
  BY <1>2 DEF IInv, FrameInv
<1>5. MgrTypeOK' /\ FrameInv' /\ HandlerInv' /\ HandlerAtMostOnce'
  BY <1>1, <1>2, <1>3, <1>4, PopManager
<1>6. ToldInv' /\ TokenFromOwnPage'
  BY <1>1, ToldKept
<1>7. PageInv'
  BY <1>1, <1>2, PopPages
<1>8. KeyTypes' /\ KeyInv'
  BY <1>1, KeysKept DEF netVars
<1>9. mes' \subseteq [url : AllTokenURLs, own : BOOLEAN]'
  BY <1>1, SameSetting DEF IInv, TypeOK, KeyTypeOK, netVars
<1>10. KeyTypeOK'
  BY <1>8, <1>9 DEF KeyTypes, KeyTypeOK
<1>11. /\ authSession' \in {authSession, Nil} /\ safariVC' \in {safariVC, Nil}
       /\ live' \subseteq live /\ outside' \subseteq outside
  BY DEF CallerReturns
<1>12. AskTypeOK'
  BY <1>1, <1>11, SameSetting, AskFacts DEF AskTypeOK
<1>13. UiTypeOK'
  BY <1>1, SameSetting, AskFacts DEF UiTypeOK
<1> QED BY <1>1, <1>5, <1>6, <1>7, <1>8, <1>10, <1>12, <1>13, IInvParts DEF CoreInv

-----------------------------------------------------------------------------
(* A login page is opened.                                                 *)

(* logInWithBehavior: what is being asked. *)
LEMMA OpensPage ==
    ASSUME IInv, NEW a \in Logins \cup {Nil}, NEW route \in Routes, setting' = setting,
           LogInWithBehavior(a, route), Len(pages) < MaxChallenges
    PROVE  /\ AskTypeOK' /\ IsFiniteSet(opens') /\ Len(pages') = Len(pages) + 1
           /\ Len(pages) + 1 \in Pages /\ challenge' = Len(pages) + 1
           /\ pages'[Len(pages) + 1].a = a
           /\ \A ch \in 1..Len(pages) : pages'[ch] = pages[ch]
           /\ \A o \in opens' : o.ch \in 1..Len(pages')
           /\ route # "native" => NativeOpens' = NativeOpens
           /\ route = "native" =>
                 Cardinality(NativeOpens') = Cardinality(NativeOpens) + 1
<1> USE NilFacts
<1> DEFINE n == Len(pages) + 1
           rec == [a |-> a, route |-> route]
           o == [ch |-> n, route |-> route]
<1>1. /\ pages \in Seq([a : Logins \cup {Nil}, route : Routes]) /\ Len(pages) \in Nat
      /\ Routes' = Routes /\ IsFiniteSet(opens) /\ \A x \in opens : x.ch \in 1..Len(pages)
      /\ opens \subseteq [ch : Pages, route : {"native", "browser"}]
  BY SameSetting, AskFacts DEF AskTypeOK, IInv, PageInv
<1>2. n \in Pages /\ n \in Nat /\ n = Len(pages) + 1
  BY <1>1 DEF Pages
<1>3. rec \in [a : Logins \cup {Nil}, route : Routes] /\ rec.a = a
  OBVIOUS
<1>4. /\ pages' = Append(pages, rec) /\ challenge' = n
      /\ opens' = (IF route \in {"native", "browser"} THEN opens \cup {o} ELSE opens)
  BY DEF LogInWithBehavior
<1> HIDE DEF rec
<1>5. /\ pages' \in Seq([a : Logins \cup {Nil}, route : Routes]) /\ Len(pages') = n
      /\ pages'[n] = rec /\ \A ch \in 1..Len(pages) : pages'[ch] = pages[ch]
  BY <1>1, <1>3, <1>4
<1>6. o.ch = n /\ o.route = route
  OBVIOUS
<1>7. route \in {"native", "browser"} => o \in [ch : Pages, route : {"native", "browser"}]
  BY <1>2
<1> HIDE DEF o
<1>8. opens' \subseteq [ch : Pages, route : {"native", "browser"}]
  BY <1>1, <1>4, <1>7
<1>9. IsFiniteSet(opens')
  BY <1>1, <1>4, FS_AddElement
<1>10. \A x \in opens' : x.ch \in 1..Len(pages')
  <2>1. \A x \in opens : x.ch \in 1..n
    BY <1>1, <1>2
  <2>2. n \in 1..n
    BY <1>1
  <2> QED BY <1>4, <1>5, <1>6, <2>1, <2>2
<1>11. o \notin opens
  BY <1>1, <1>2, <1>6
<1>12. route # "native" => NativeOpens' = NativeOpens
  BY <1>4, <1>6 DEF NativeOpens
<1>13. route = "native" => Cardinality(NativeOpens') = Cardinality(NativeOpens) + 1
  <2>1. route = "native" => NativeOpens' = NativeOpens \cup {o} /\ o \notin NativeOpens
    BY <1>4, <1>6, <1>11 DEF NativeOpens
  <2>2. IsFiniteSet(NativeOpens)
    BY PromiseFacts
  <2>3. o \notin NativeOpens => Cardinality(NativeOpens \cup {o}) = Cardinality(NativeOpens) + 1
    BY <2>2, FS_AddElement
  <2> QED BY <2>1, <2>3
<1>14. /\ {pendingURLOpen, expectingBackground}' \subseteq BOOLEAN
       /\ web' \in Pages \cup {Nil}
  <2>1. {pendingURLOpen, expectingBackground} \subseteq BOOLEAN /\ web \in Pages \cup {Nil}
    BY AskFacts DEF AskTypeOK
  <2>2. CASE route = "web"
    <3>1. web' = n /\ pendingURLOpen' = pendingURLOpen
          /\ expectingBackground' = expectingBackground
      BY <2>2 DEF LogInWithBehavior
    <3> QED BY <1>2, <2>1, <3>1
  <2>3. CASE route # "web"
    <3>1. web' = web /\ pendingURLOpen' = TRUE
          /\ expectingBackground' = (route \in {"native", "browser"})
      BY <2>3 DEF LogInWithBehavior
    <3>2. expectingBackground' \in BOOLEAN
      BY <3>1
    <3> QED BY <2>1, <3>1, <3>2
  <2> QED BY <2>2, <2>3
<1>15. authSession' \in Pages \cup {Nil} /\ live' \subseteq Pages
  BY <1>2, AskFacts DEF LogInWithBehavior, AskTypeOK
<1>16. /\ safariVC' \in Pages \cup {Nil} /\ presenting' \in Pages \cup {Nil}
       /\ outside' \subseteq Pages
  BY <1>2, AskFacts DEF LogInWithBehavior, AskTypeOK
<1>17. Len(pages') <= MaxChallenges
  BY <1>1, <1>5
<1>18. AskTypeOK'
  BY <1>1, <1>5, <1>8, <1>14, <1>15, <1>16, <1>17 DEF AskTypeOK
<1> QED BY <1>2, <1>3, <1>4, <1>5, <1>9, <1>10, <1>12, <1>13, <1>18

(* The frame on top, a login or a fallback, spends the pages it was promised. *)
LEMMA SpendsPages ==
    ASSUME IInv, stack # <<>>, Head(stack).k \in {"login", "relogin"}, stack' = Tail(stack),
           UNCHANGED <<dismissals, fallback>>, Len(pages') = Len(pages) + 1,
           IsFiniteSet(opens'), \A o \in opens' : o.ch \in 1..Len(pages'),
           \/ NativeOpens' = NativeOpens
           \/ /\ Head(stack).k = "login" /\ Head(stack).route = "native"
              /\ Cardinality(NativeOpens') = Cardinality(NativeOpens) + 1
    PROVE  PageInv'
<1>1. DisabledWaits' = DisabledWaits
  BY DEF DisabledWaits
<1>2. PICK l \in Nat, n \in Nat, o \in Nat, d \in Nat, b \in {0, 1} :
         /\ l = Cardinality(LogInFrames) /\ n = Cardinality(NativeFrames)
         /\ o = Cardinality(NativeOpens) /\ d = Cardinality(DisabledWaits) /\ b = Fallback
  BY PromiseFacts
<1>3. PICK m \in Nat, k \in Nat :
         /\ m = Cardinality(LogInFrames') /\ k = Cardinality(NativeFrames')
         /\ m + 1 = l /\ k <= n
         /\ Head(stack).k = "login" /\ Head(stack).route = "native" => k + 1 = n
  BY <1>2, PopFrames
<1>4. PICK q \in Nat : /\ q = Cardinality(NativeOpens')
                       /\ q = o \/ (q = o + 1 /\ k + 1 = n)
  BY SMTT(30), <1>2, <1>3
<1>5. Promised' = m + k + q + d + b
  BY <1>1, <1>2, <1>3, <1>4 DEF Promised, Fallback
<1>6. Promised = l + n + o + d + b
  BY <1>2 DEF Promised, Fallback
<1>7. PICK p \in Nat : p = Len(pages) /\ p + (l + n + o + d + b) <= MaxChallenges
  BY <1>6, PromiseFacts
<1>8. Spare' = MaxChallenges - (p + 1) - (m + k + q + d + b)
  BY <1>5, <1>7 DEF Spare
<1>9. MaxChallenges - (p + 1) - (m + k + q + d + b) >= 0
  <2>1. m + 1 = l /\ k <= n
    BY <1>3
  <2>2. q = o \/ (q = o + 1 /\ k + 1 = n)
    BY <1>4
  <2>3. p + (l + n + o + d + b) <= MaxChallenges /\ MaxChallenges \in Nat
    BY <1>7, NilFacts
  <2> QED BY <2>1, <2>2, <2>3
<1>10. Spare' >= 0
  BY <1>8, <1>9
<1>11. IsFiniteSet(dismissals')
  BY AskFacts
<1> QED BY <1>10, <1>11 DEF PageInv

(* A login or a fallback on the stack is promised a page. *)
LEMMA PageLeft ==
    ASSUME IInv, stack # <<>>, Head(stack).k \in {"login", "relogin"}
    PROVE  Len(pages) < MaxChallenges
<1>1. Head(stack) \in LogInFrames
  <2>1. stack \in Seq(Frames)
    BY DEF IInv, TypeOK, MgrTypeOK
  <2>2. Head(stack) \in FramesOf(stack)
    BY <2>1, Uncons
  <2> QED BY <2>2 DEF LogInFrames
<1>2. Cardinality(LogInFrames) # 0
  BY <1>1, PromiseFacts, FS_EmptySet
<1> QED BY <1>2, PromiseFacts, NilFacts

(* The keys after a page was opened for the login whose handler the manager holds. *)
LEMMA NewChallenge ==
    ASSUME IInv, UNCHANGED <<setting, token, cache, used, netVars>>,
           Len(pages') = Len(pages) + 1, Len(pages) + 1 \in Pages,
           challenge' = Len(pages) + 1,
           handler' # Nil => pages'[Len(pages) + 1].a = handler',
           \A ch \in 1..Len(pages) : pages'[ch] = pages[ch],
           handler' # Nil => \/ handler' = handler /\ reauthsAt' = reauthsAt
                             \/ \A r \in reauths : r.ch \in reauthsAt'[handler']
    PROVE  KeyTypeOK' /\ KeyInv'
<1> USE NilFacts
<1>0. /\ Tokens' = Tokens /\ Users' = Users /\ AllTokenURLs' = AllTokenURLs
      /\ Len(pages) \in Nat /\ reauths' = reauths /\ mes' = mes /\ used' = used
  BY SameSetting, PromiseFacts DEF netVars
<1>1. KeyTypeOK'
  BY <1>0 DEF IInv, TypeOK, KeyTypeOK
<1>2. \A ch \in Pages : ch > Len(pages) => used[ch] = 0
  BY DEF IInv, ChallengeInv
<1>3. Expected(challenge)' /\ challenge' # Nil
  <2>1. used[Len(pages) + 1] = 0 /\ Len(pages) + 1 \in 1..Len(pages')
    BY <1>0, <1>2
  <2> QED BY <1>0, <2>1 DEF Expected
<1>4. ASSUME NEW r \in reauths
      PROVE  r.ch # Len(pages) + 1 /\ Validated(r.ch)'
  <2>1. r.ch \in 1..Len(pages) /\ used[r.ch] = 0
        /\ (handler # Nil => pages[r.ch].a = handler \/ r.ch \in reauthsAt[handler])
    BY DEF IInv, ChallengeInv, Validated
  <2>2. r.ch # Len(pages) + 1 /\ r.ch \in 1..Len(pages')
    BY <1>0, <2>1
  <2>3. handler' # Nil => pages'[r.ch].a = handler' \/ r.ch \in reauthsAt'[handler']
    BY <2>1
  <2> QED BY <1>0, <2>1, <2>2, <2>3 DEF Validated
<1>5. \A ch \in Pages : ch > Len(pages') => used[ch] = 0
  BY <1>0, <1>2 DEF Pages
<1>6. ChallengeInv'
  <2>1. \A r \in reauths' : r.ch # challenge' /\ Validated(r.ch)'
    BY <1>0, <1>4
  <2>2. \A r \in reauths' : \A q \in reauths' : q.ch = r.ch => q = r
    BY <1>0 DEF IInv, ChallengeInv
  <2> QED BY <1>0, <1>3, <1>5, <2>1, <2>2 DEF ChallengeInv
<1>7. ChallengeUsedOnce'
  BY <1>0 DEF IInv, ChallengeUsedOnce
<1> QED BY <1>1, <1>6, <1>7 DEF KeyInv

(* Nobody was told of a page that is opened only now. *)
LEMMA PageTold ==
    ASSUME IInv, told' = told, Len(pages') = Len(pages) + 1,
           \A ch \in 1..Len(pages) : pages'[ch] = pages[ch],
           \A a \in Logins : told[a] # <<>> => reauthsAt'[a] = reauthsAt[a]
    PROVE  ToldInv' /\ TokenFromOwnPage'
<1>1. Len(pages) \in Nat /\ told \in [Logins -> Seq(Results)]
  BY PromiseFacts DEF IInv, TypeOK, MgrTypeOK
<1>2. ASSUME NEW a \in Logins, NEW i \in 1..Len(told[a]), told[a][i].r = "token"
      PROVE  /\ told[a][i].ch \in 1..Len(pages')
             /\ pages'[told[a][i].ch].a = a \/ told[a][i].ch \in reauthsAt'[a]
  <2>1. /\ told[a][i].ch \in 1..Len(pages)
        /\ pages[told[a][i].ch].a = a \/ told[a][i].ch \in reauthsAt[a]
    BY <1>2 DEF IInv, ToldInv, TokenFromOwnPage
  <2>2. told[a] # <<>>
    BY <1>2
  <2> QED BY <1>1, <2>1, <2>2
<1> QED BY <1>2 DEF ToldInv, TokenFromOwnPage

(* _state after a page was opened. *)
LEMMA StateAfterOpenType ==
    ASSUME IInv, NEW route
    PROVE  StateAfterOpen(route) \in States
BY AskFacts DEF StateAfterOpen, States

(* A login on the stack is not the one whose handler the manager holds. *)
LEMMA OtherLogins ==
    ASSUME IInv, stack # <<>>, Head(stack).k = "login"
    PROVE  /\ Head(stack).a \in Logins /\ Head(stack).a < nextAtt
           /\ Head(stack).route \in Routes /\ told[Head(stack).a] = <<>>
           /\ \A i \in 2..Len(stack) : stack[i].k = "login" => stack[i].a # Head(stack).a
<1>0. stack \in Seq(Frames) /\ nextAtt \in 1..(MaxLogins + 1)
  BY AskFacts DEF IInv, TypeOK, MgrTypeOK, UiTypeOK
<1>1. Head(stack) = stack[1] /\ 1 \in 1..Len(stack)
  BY <1>0, Uncons
<1>2. /\ stack[1].a \in 1..(nextAtt - 1) /\ stack[1].route \in Routes
      /\ told[stack[1].a] = <<>>
      /\ \A j \in 1..Len(stack) : stack[j].k = "login" /\ stack[j].a = stack[1].a => 1 = j
  BY <1>1 DEF IInv, FrameInv
<1>3. \A i \in 2..Len(stack) : i \in 1..Len(stack) /\ i # 1
  OBVIOUS
<1> QED BY <1>0, <1>1, <1>2, <1>3, NilFacts DEF Logins

(* A login goes on: its page is the expected one, and reauthsAt holds what is validated. *)
LEMMA ContinueLogInStep ==
    ASSUME IInv, ContinueLogIn
    PROVE  IInv'
<1> USE NilFacts
<1> DEFINE f == Head(stack)
<1>1. /\ Running("login") /\ handler' = f.a
      /\ reauthsAt' = [reauthsAt EXCEPT ![f.a] = {r.ch : r \in reauths}]
      /\ LogInWithBehavior(f.a, f.route) /\ state' = StateAfterOpen(f.route)
      /\ stack' = Tail(stack)
      /\ UNCHANGED <<told, token, cache, used, netVars, active, dismissing, dismissals,
                     ending, fallback, ui, leaving, launchURL, setting, nextAtt, gone>>
  BY DEF ContinueLogIn
<1>2. stack # <<>> /\ f.k = "login"
  BY <1>1 DEF Running
<1>3. /\ f.a \in Logins /\ f.a < nextAtt /\ f.route \in Routes /\ told[f.a] = <<>>
      /\ \A i \in 2..Len(stack) : stack[i].k = "login" => stack[i].a # f.a
  BY <1>2, OtherLogins
<1>4. Len(pages) < MaxChallenges
  BY <1>2, PageLeft
<1> DEFINE a == f.a
           route == f.route
<1>5. /\ AskTypeOK' /\ IsFiniteSet(opens') /\ Len(pages') = Len(pages) + 1
      /\ Len(pages) + 1 \in Pages /\ challenge' = Len(pages) + 1
      /\ pages'[Len(pages) + 1].a = a
      /\ \A ch \in 1..Len(pages) : pages'[ch] = pages[ch]
      /\ \A o \in opens' : o.ch \in 1..Len(pages')
      /\ route # "native" => NativeOpens' = NativeOpens
      /\ route = "native" => Cardinality(NativeOpens') = Cardinality(NativeOpens) + 1
  BY <1>1, <1>3, <1>4, OpensPage
<1>6. MgrTypeOK' /\ FrameInv' /\ HandlerInv' /\ HandlerAtMostOnce'
  BY <1>1, <1>2, <1>3, StateAfterOpenType, PopManager
<1>7. PageInv'
  BY <1>1, <1>2, <1>5, SpendsPages
<1>8. /\ reauthsAt \in [Logins -> SUBSET Pages]
      /\ {r.ch : r \in reauths} \subseteq Pages
  BY AskFacts DEF UiTypeOK, IInv, TypeOK, KeyTypeOK
<1>9. /\ reauthsAt' \in [Logins -> SUBSET Pages]
      /\ reauthsAt'[a] = {r.ch : r \in reauths}
      /\ \A b \in Logins : b # a => reauthsAt'[b] = reauthsAt[b]
  BY <1>1, <1>3, <1>8
<1>10. \A b \in Logins : told[b] # <<>> => reauthsAt'[b] = reauthsAt[b]
  BY <1>3, <1>9
<1>11. ToldInv' /\ TokenFromOwnPage'
  BY <1>1, <1>5, <1>10, PageTold
<1>12. \A r \in reauths : r.ch \in reauthsAt'[handler']
  BY <1>1, <1>9
<1>13. KeyTypeOK' /\ KeyInv'
  BY <1>1, <1>5, <1>12, NewChallenge
<1>14. UiTypeOK'
  BY <1>1, <1>9, SameSetting, AskFacts DEF UiTypeOK
<1> QED BY <1>1, <1>5, <1>6, <1>7, <1>11, <1>13, <1>14, IInvParts DEF CoreInv

(* A fallback opens a page for the login whose handler the manager holds. *)
LEMMA ReLogInStep ==
    ASSUME IInv, NEW route \in BrowserRoutes, ReLogIn(route)
    PROVE  IInv'
<1> USE NilFacts
<1>1. /\ Running("relogin") /\ LogInWithBehavior(handler, route)
      /\ state' = StateAfterOpen(route) /\ stack' = Tail(stack)
      /\ UNCHANGED <<handler, told, token, cache, used, netVars, active, dismissing,
                     dismissals, ending, fallback, ui, leaving, launchURL, setting,
                     nextAtt, gone, reauthsAt>>
  BY DEF ReLogIn, NoHandler, appVars
<1>2. stack # <<>> /\ Head(stack).k = "relogin" /\ route \in Routes /\ route # "native"
      /\ handler \in Logins \cup {Nil} /\ stack \in Seq(Frames)
  BY <1>1 DEF Running, BrowserRoutes, IInv, TypeOK, MgrTypeOK
<1>3. Len(pages) < MaxChallenges
  BY <1>2, PageLeft
<1>4. /\ AskTypeOK' /\ IsFiniteSet(opens') /\ Len(pages') = Len(pages) + 1
      /\ Len(pages) + 1 \in Pages /\ challenge' = Len(pages) + 1
      /\ pages'[Len(pages) + 1].a = handler
      /\ \A ch \in 1..Len(pages) : pages'[ch] = pages[ch]
      /\ \A o \in opens' : o.ch \in 1..Len(pages')
      /\ NativeOpens' = NativeOpens
  BY <1>1, <1>2, <1>3, OpensPage
<1>5. handler # Nil => handler < nextAtt /\ told[handler] = <<>>
  <2>1. handler # Nil => told[handler] = <<>>
    BY <1>2, HandlerFree
  <2> QED BY <2>1 DEF IInv, HandlerInv
<1>6. \A i \in 2..Len(stack) : stack[i].k = "login" => stack[i].a # handler
  BY <1>2 DEF IInv, FrameInv
<1>7. MgrTypeOK' /\ FrameInv' /\ HandlerInv' /\ HandlerAtMostOnce'
  BY <1>1, <1>2, <1>5, <1>6, StateAfterOpenType, PopManager
<1>8. PageInv'
  BY <1>1, <1>2, <1>4, SpendsPages
<1>9. ToldInv' /\ TokenFromOwnPage'
  BY <1>1, <1>4, PageTold
<1>10. KeyTypeOK' /\ KeyInv'
  BY <1>1, <1>4, NewChallenge
<1>11. UiTypeOK'
  BY <1>1, SameSetting, AskFacts DEF UiTypeOK
<1> QED BY <1>1, <1>4, <1>7, <1>8, <1>9, <1>10, <1>11, IInvParts DEF CoreInv

-----------------------------------------------------------------------------
(* The app calls the SDK.                                                  *)

(* The token and its cache are cleared. *)
LEMMA LogOutStep ==
    ASSUME IInv, LogOut
    PROVE  IInv'
<1>1. /\ token' = Nil /\ cache' = Nil /\ UNCHANGED <<state, handler, told, stack>>
      /\ UNCHANGED <<challenge, used, askVars, netVars, uiVars, appVars>>
  BY DEF LogOut, mgrVars
<1>2. UNCHANGED <<setting, nextAtt, pages, reauthsAt, opens, dismissals, fallback, launchURL,
                  mes, reauths>>
  BY <1>1 DEF askVars, netVars, uiVars, appVars
<1>3. /\ Frames' = Frames /\ Routes' = Routes /\ Users' = Users
      /\ AllTokenURLs' = AllTokenURLs
  BY <1>2, SameSetting
<1>4. MgrTypeOK' /\ FrameInv'
  BY <1>1, <1>2, <1>3 DEF IInv, TypeOK, MgrTypeOK, FrameInv
<1>5. HandlerInv' /\ HandlerAtMostOnce'
  BY <1>1, <1>2 DEF IInv, HandlerInv, HandlerAtMostOnce, Runs, Running
<1>6. ToldInv' /\ TokenFromOwnPage'
  BY <1>1, <1>2, ToldKept
<1>7. KeyTypeOK'
  BY <1>1, <1>2, <1>3 DEF IInv, TypeOK, KeyTypeOK
<1>8. KeyInv'
  <2>1. \A ch : (Validated(ch)' <=> Validated(ch)) /\ (Expected(ch)' <=> Expected(ch))
    BY <1>1, <1>2 DEF Validated, Expected
  <2> QED BY <1>1, <1>2, <2>1 DEF IInv, KeyInv, ChallengeInv, ChallengeUsedOnce
<1>9. PageInv'
  <2>1. Promised' = Promised
    BY <1>1, <1>2 DEF Promised, LogInFrames, NativeFrames, NativeOpens, DisabledWaits
  <2> QED BY <1>2, <2>1 DEF IInv, PageInv, Spare
<1>10. AskTypeOK' /\ UiTypeOK'
  BY <1>1, SameSetting, AskFacts DEF AskTypeOK, UiTypeOK, askVars, uiVars, appVars
<1> QED BY <1>2, <1>4, <1>5, <1>6, <1>7, <1>8, <1>9, <1>10, IInvParts DEF CoreInv

(* FrameInv of a stack s, with n for nextAtt, h for handler and t for told. *)
Ordered(s, n, h, t) ==
    \A i \in 1..Len(s) :
        /\ s[i].k = "login" =>
              /\ s[i].a \in 1..(n - 1) /\ s[i].route \in Routes /\ s[i].a # h
              /\ t[s[i].a] = <<>>
              /\ \A j \in 1..Len(s) : s[j].k = "login" /\ s[j].a = s[i].a => i = j
        /\ s[i].k = "relogin" => \A j \in 1..Len(s) : s[j].k = "relogin" => i = j
        /\ s[i].k = "launch" => launchURL # Nil

(* A new login is put on the stack. *)
LEMMA OrderedLogin ==
    ASSUME NEW s \in Seq(Frames), NEW n \in Nat \ {0}, NEW h, NEW t, Ordered(s, n, h, t),
           NEW route \in Routes, n \in Logins, n # h, t[n] = <<>>
    PROVE  Ordered(<<Frame("login", n, route)>> \o s, n + 1, h, t)
<1> DEFINE f == Frame("login", n, route)
           q == <<f>> \o s
<1>1. f \in Frames /\ f.k = "login" /\ f.a = n /\ f.route = route
  BY FrameType
<1> HIDE DEF f
<1>2. /\ Len(q) = Len(s) + 1 /\ Len(s) \in Nat
      /\ q[1] = f /\ \A i \in 1..Len(s) : q[i + 1] = s[i]
  BY <1>1, Cons
<1> HIDE DEF q
<1>3. \A i \in 1..Len(q) : i = 1 \/ (i - 1 \in 1..Len(s) /\ q[i] = s[i - 1])
  BY <1>2
<1>4. \A i \in 1..Len(s) : s[i].k = "login" => s[i].a # n /\ s[i].a \in 1..((n + 1) - 1)
  BY DEF Ordered
<1>5. ASSUME NEW i \in 1..Len(q), q[i].k = "login"
      PROVE  /\ q[i].a \in 1..((n + 1) - 1) /\ q[i].route \in Routes /\ q[i].a # h
             /\ t[q[i].a] = <<>>
             /\ \A j \in 1..Len(q) : q[j].k = "login" /\ q[j].a = q[i].a => i = j
  <2>1. CASE i = 1
    <3>1. q[i] = f
      BY <1>2, <2>1
    <3>2. n \in 1..((n + 1) - 1)
      OBVIOUS
    <3>3. \A j \in 1..Len(q) : q[j].k = "login" /\ q[j].a = n => j = 1
      BY <1>3, <1>4
    <3> QED BY <1>1, <2>1, <3>1, <3>2, <3>3
  <2>2. CASE i # 1
    <3>1. i - 1 \in 1..Len(s) /\ q[i] = s[i - 1]
      BY <1>3, <2>2
    <3>2. /\ s[i - 1].a \in 1..((n + 1) - 1) /\ s[i - 1].route \in Routes
          /\ s[i - 1].a # h /\ s[i - 1].a # n /\ t[s[i - 1].a] = <<>>
          /\ \A j \in 1..Len(s) : s[j].k = "login" /\ s[j].a = s[i - 1].a => i - 1 = j
      BY <1>4, <1>5, <3>1 DEF Ordered
    <3>3. ASSUME NEW j \in 1..Len(q), q[j].k = "login", q[j].a = q[i].a
          PROVE  i = j
      <4>1. j # 1
        BY <1>1, <1>2, <3>1, <3>2, <3>3
      <4>2. j - 1 \in 1..Len(s) /\ q[j] = s[j - 1]
        BY <1>3, <4>1
      <4>3. i - 1 = j - 1
        BY <3>1, <3>2, <3>3, <4>2
      <4> QED BY <1>2, <4>3
    <3> QED BY <3>1, <3>2, <3>3
  <2> QED BY <2>1, <2>2
<1>6. ASSUME NEW i \in 1..Len(q), q[i].k = "relogin", NEW j \in 1..Len(q), q[j].k = "relogin"
      PROVE  i = j
  <2>1. i # 1 /\ j # 1
    BY <1>1, <1>2, <1>6
  <2>2. /\ i - 1 \in 1..Len(s) /\ q[i] = s[i - 1]
        /\ j - 1 \in 1..Len(s) /\ q[j] = s[j - 1]
    BY <1>3, <2>1
  <2>3. i - 1 = j - 1
    BY <1>6, <2>2 DEF Ordered
  <2> QED BY <1>2, <2>3
<1>7. \A i \in 1..Len(q) : q[i].k = "launch" => launchURL # Nil
  BY <1>1, <1>2, <1>3 DEF Ordered
<1>8. Ordered(q, n + 1, h, t)
  BY <1>5, <1>6, <1>7 DEF Ordered
<1> QED BY <1>8 DEF q, f

(* A handler is called, and told. *)
LEMMA OrderedHandler ==
    ASSUME NEW s \in Seq(Frames), NEW n, NEW h \in Logins, NEW t, NEW u,
           Ordered(s, n, h, t), n - 1 <= MaxLogins, n \in Nat,
           \A a \in Logins : a # h => u[a] = t[a]
    PROVE  Ordered(<<Frame("handler", h, Nil)>> \o s, n, h, u)
<1> DEFINE f == Frame("handler", h, Nil)
           q == <<f>> \o s
<1>1. f \in Frames /\ f.k = "handler"
  BY FrameType
<1> HIDE DEF f
<1>2. /\ Len(q) = Len(s) + 1 /\ Len(s) \in Nat
      /\ q[1] = f /\ \A i \in 1..Len(s) : q[i + 1] = s[i]
  BY <1>1, Cons
<1> HIDE DEF q
<1>3. \A i \in 1..Len(q) : i = 1 \/ (i - 1 \in 1..Len(s) /\ q[i] = s[i - 1])
  BY <1>2
<1>4. ASSUME NEW i \in 1..Len(q), q[i].k # "handler"
      PROVE  i - 1 \in 1..Len(s) /\ q[i] = s[i - 1]
  BY <1>1, <1>2, <1>3, <1>4
<1>5. ASSUME NEW i \in 1..Len(q), q[i].k = "login"
      PROVE  /\ q[i].a \in 1..(n - 1) /\ q[i].route \in Routes /\ q[i].a # h
             /\ u[q[i].a] = <<>>
             /\ \A j \in 1..Len(q) : q[j].k = "login" /\ q[j].a = q[i].a => i = j
  <2>1. i - 1 \in 1..Len(s) /\ q[i] = s[i - 1]
    BY <1>4, <1>5
  <2>2. /\ s[i - 1].a \in 1..(n - 1) /\ s[i - 1].route \in Routes
        /\ s[i - 1].a # h /\ t[s[i - 1].a] = <<>>
        /\ \A j \in 1..Len(s) : s[j].k = "login" /\ s[j].a = s[i - 1].a => i - 1 = j
    BY <1>5, <2>1 DEF Ordered
  <2>3. s[i - 1].a \in Logins
    BY <2>2, NilFacts DEF Logins
  <2>4. ASSUME NEW j \in 1..Len(q), q[j].k = "login", q[j].a = q[i].a
        PROVE  i = j
    <3>1. j - 1 \in 1..Len(s) /\ q[j] = s[j - 1]
      BY <1>4, <2>4
    <3>2. i - 1 = j - 1
      BY <2>1, <2>2, <2>4, <3>1
    <3> QED BY <1>2, <3>2
  <2> QED BY <2>1, <2>2, <2>3, <2>4
<1>6. ASSUME NEW i \in 1..Len(q), q[i].k = "relogin", NEW j \in 1..Len(q), q[j].k = "relogin"
      PROVE  i = j
  <2>1. /\ i - 1 \in 1..Len(s) /\ q[i] = s[i - 1]
        /\ j - 1 \in 1..Len(s) /\ q[j] = s[j - 1]
    BY <1>4, <1>6
  <2>2. i - 1 = j - 1
    BY <1>6, <2>1 DEF Ordered
  <2> QED BY <1>2, <2>2
<1>7. \A i \in 1..Len(q) : q[i].k = "launch" => launchURL # Nil
  BY <1>4 DEF Ordered
<1>8. Ordered(q, n, h, u)
  BY <1>5, <1>6, <1>7 DEF Ordered
<1> QED BY <1>8 DEF q, f

(* The bound, when a login is put on the stack. *)
LEMMA LogInPages ==
    ASSUME IInv, UNCHANGED <<pages, opens, dismissals, fallback>>, NEW route,
           Spare >= PagesNeeded(route), NEW f, f.route = route,
           LogInFrames' \subseteq LogInFrames \cup {f},
           NativeFrames' \subseteq NativeFrames \cup (IF route = "native" THEN {f} ELSE {})
    PROVE  PageInv'
<1>1. NativeOpens' = NativeOpens /\ DisabledWaits' = DisabledWaits
  BY DEF NativeOpens, DisabledWaits
<1>2. PICK l \in Nat, n \in Nat, o \in Nat, d \in Nat, b \in {0, 1} :
         /\ l = Cardinality(LogInFrames) /\ n = Cardinality(NativeFrames)
         /\ o = Cardinality(NativeOpens) /\ d = Cardinality(DisabledWaits) /\ b = Fallback
  BY PromiseFacts
<1>3. IsFiniteSet(LogInFrames) /\ IsFiniteSet(NativeFrames)
  BY PromiseFacts
<1>4. /\ IsFiniteSet(LogInFrames \cup {f}) /\ Cardinality(LogInFrames \cup {f}) \in {l, l + 1}
      /\ IsFiniteSet(NativeFrames \cup {f}) /\ Cardinality(NativeFrames \cup {f}) \in {n, n + 1}
  BY <1>2, <1>3, FS_AddElement
<1>5. PICK m \in Nat : m = Cardinality(LogInFrames') /\ m <= l + 1
  <2>1. IsFiniteSet(LogInFrames') /\ Cardinality(LogInFrames') <= Cardinality(LogInFrames \cup {f})
    BY <1>4, FS_Subset
  <2>2. Cardinality(LogInFrames') \in Nat
    BY <2>1, FS_CardinalityType
  <2>3. PICK m \in Nat : m = Cardinality(LogInFrames')
    BY <2>2
  <2>4. m <= l + 1
    BY <1>4, <2>1, <2>3
  <2> QED BY <2>3, <2>4
<1>6. PICK k \in Nat : k = Cardinality(NativeFrames')
                       /\ k <= n + (IF route = "native" THEN 1 ELSE 0)
  <2>1. CASE route = "native"
    <3>1. IsFiniteSet(NativeFrames')
          /\ Cardinality(NativeFrames') <= Cardinality(NativeFrames \cup {f})
      BY <1>4, <2>1, FS_Subset
    <3>2. Cardinality(NativeFrames') \in Nat
      BY <3>1, FS_CardinalityType
    <3>3. PICK k \in Nat : k = Cardinality(NativeFrames')
      BY <3>2
    <3>4. k <= n + 1
      BY <1>4, <3>1, <3>3
    <3> QED BY <2>1, <3>3, <3>4
  <2>2. CASE route # "native"
    <3>1. IsFiniteSet(NativeFrames') /\ Cardinality(NativeFrames') <= Cardinality(NativeFrames)
      BY <1>3, <2>2, FS_Subset
    <3>2. Cardinality(NativeFrames') \in Nat
      BY <3>1, FS_CardinalityType
    <3>3. PICK k \in Nat : k = Cardinality(NativeFrames')
      BY <3>2
    <3>4. k <= n
      BY <1>2, <3>1, <3>3
    <3> QED BY <2>2, <3>3, <3>4
  <2> QED BY <2>1, <2>2
<1>7. Promised' = m + k + o + d + b
  BY <1>1, <1>2, <1>5, <1>6 DEF Promised, Fallback
<1>8. Promised = l + n + o + d + b
  BY <1>2 DEF Promised, Fallback
<1>9. PICK p \in Nat : p = Len(pages)
  BY PromiseFacts
<1>10. Spare = MaxChallenges - p - (l + n + o + d + b)
  BY <1>8, <1>9 DEF Spare
<1>11. Spare' = MaxChallenges - p - (m + k + o + d + b)
  BY <1>7, <1>9 DEF Spare
<1>12. MaxChallenges - p - (m + k + o + d + b) >= 0
  <2>1. m <= l + 1 /\ k <= n + (IF route = "native" THEN 1 ELSE 0)
    BY <1>5, <1>6
  <2>2. MaxChallenges - p - (l + n + o + d + b) >= (IF route = "native" THEN 2 ELSE 1)
    BY <1>10 DEF PagesNeeded
  <2>3. MaxChallenges \in Nat
    BY NilFacts
  <2> QED BY <2>1, <2>2, <2>3
<1>13. Spare' >= 0
  BY <1>11, <1>12
<1> QED BY <1>13 DEF IInv, PageInv

(* All but the manager, when logIn... is called. *)
LEMMA LogInRest ==
    ASSUME IInv, nextAtt \in Logins, nextAtt' = nextAtt + 1, handler' = handler,
           UNCHANGED <<setting, keyVars, askVars, netVars, uiVars, gone, reauthsAt>>
    PROVE  KeyTypeOK' /\ KeyInv' /\ AskTypeOK' /\ UiTypeOK'
<1>0. UNCHANGED <<pages, mes, reauths>>
  BY DEF askVars, netVars
<1>1. KeyTypes' /\ KeyInv'
  BY <1>0, KeysKept
<1>2. mes' \subseteq [url : AllTokenURLs, own : BOOLEAN]'
  BY <1>0, SameSetting DEF IInv, TypeOK, KeyTypeOK
<1>3. AskTypeOK'
  BY SameSetting, AskFacts DEF AskTypeOK, askVars, uiVars
<1>4. nextAtt' \in 1..(MaxLogins + 1)
  BY NilFacts DEF Logins
<1>5. UiTypeOK'
  BY <1>4, SameSetting, AskFacts DEF UiTypeOK, uiVars
<1> QED BY <1>1, <1>2, <1>3, <1>5 DEF KeyTypes, KeyTypeOK

(* logIn... is refused, cancels the login being performed, or starts. *)
LEMMA LogInStep ==
    ASSUME IInv, NEW route \in Routes, LogIn(route)
    PROVE  IInv'
<1> USE NilFacts
<1> DEFINE a == nextAtt
           f == Frame("login", a, route)
           start == <<f>> \o stack
<1>1. /\ AppMayCall /\ a <= LoginBound /\ Spare >= PagesNeeded(route) /\ nextAtt' = a + 1
      /\ \/ state = "Start" /\ NoHandler(state, stack)
         \/ state = "Performing" /\ ImplicitCancel(start)
         \/ state = "Idle" /\ NoHandler("Start", start)
      /\ UNCHANGED <<setting, keyVars, askVars, netVars, uiVars, gone, reauthsAt>>
  BY DEF LogIn
<1>2. UNCHANGED <<pages, opens, dismissals, fallback, launchURL>>
  BY <1>1 DEF askVars, uiVars
<1>3. /\ stack \in Seq(Frames) /\ state \in States /\ handler \in Logins \cup {Nil}
      /\ told \in [Logins -> Seq(Results)] /\ a \in Nat \ {0} /\ Frames' = Frames
      /\ Routes' = Routes
  BY <1>1, SameSetting, AskFacts DEF IInv, TypeOK, MgrTypeOK, UiTypeOK
<1>4. a \in Logins
  <2>1. setting.logins \in 1..MaxLogins
    BY AskFacts, ConstantsAssumption
  <2> QED BY <1>1, <1>3, <2>1 DEF LoginBound, Logins
<1>5. /\ handler # Nil => handler \in Logins /\ handler < a
      /\ told[a] = <<>> /\ \A b \in Logins : b >= a => told[b] = <<>>
  BY <1>3, <1>4 DEF IInv, HandlerInv
<1>6. a # handler
  BY <1>3, <1>4, <1>5
<1>7. f \in Frames /\ f.k = "login" /\ f.a = a /\ f.route = route
  BY <1>4, FrameType
<1>8. Ordered(stack, a, handler, told)
  BY DEF IInv, FrameInv, Ordered
<1>9. Ordered(start, a + 1, handler, told)
  BY <1>3, <1>4, <1>5, <1>6, <1>8, OrderedLogin
<1> HIDE DEF f
<1>10. /\ start \in Seq(Frames) /\ Len(start) = Len(stack) + 1 /\ Len(stack) \in Nat
       /\ start[1] = f /\ \A i \in 1..Len(stack) : start[i + 1] = stack[i]
       /\ FramesOf(start) = {f} \cup FramesOf(stack) /\ start # <<>> /\ Head(start) = f
  BY <1>3, <1>7, Cons
<1> HIDE DEF start
<1>11. handler' = handler
  BY <1>1 DEF NoHandler, ImplicitCancel, InvokeHandler
<1>12. KeyTypeOK' /\ KeyInv' /\ AskTypeOK' /\ UiTypeOK'
  BY <1>1, <1>4, <1>11, LogInRest
<1>13. UNCHANGED reauthsAt
  BY <1>1
<1>14. CASE state = "Start"
  <2>1. UNCHANGED <<state, handler, told, stack>>
    BY <1>1, <1>14 DEF NoHandler
  <2>2. MgrTypeOK'
    BY <1>3, <2>1 DEF MgrTypeOK
  <2>3. FrameInv'
    <3>1. \A x : x \in 1..(a - 1) => x \in 1..((a + 1) - 1)
      BY <1>3
    <3> QED BY <1>1, <1>2, <1>3, <1>8, <2>1, <3>1 DEF FrameInv, Ordered
  <2>4. HandlerInv'
    <3>1. handler # Nil => handler < a + 1
      BY <1>3, <1>5 DEF Logins
    <3>2. \A b \in Logins : b >= a + 1 => told[b] = <<>>
      BY <1>3, <1>5 DEF Logins
    <3>3. (handler # Nil /\ told[handler] # <<>>) =>
             /\ state # "Performing"
             /\ Runs(handler, 1) \/ (Running("login") /\ Runs(handler, 2))
      BY DEF IInv, HandlerInv
    <3>4. /\ (handler # Nil /\ told[handler] # <<>>)' =>
             /\ state' # "Performing"
             /\ Runs(handler, 1)' \/ (Running("login")' /\ Runs(handler, 2)')
      BY <2>1, <3>3 DEF Runs, Running
    <3> QED BY <1>1, <2>1, <3>1, <3>2, <3>4 DEF HandlerInv
  <2>5. HandlerAtMostOnce'
    BY <2>1 DEF IInv, HandlerAtMostOnce
  <2>6. ToldInv' /\ TokenFromOwnPage'
    BY <1>2, <1>13, <2>1, ToldKept
  <2>7. LogInFrames' = LogInFrames /\ NativeFrames' = NativeFrames
    BY <2>1 DEF LogInFrames, NativeFrames
  <2>8. PageInv'
    BY <1>1, <1>2, <1>7, <2>7, LogInPages
  <2> QED BY <1>1, <1>12, <2>2, <2>3, <2>4, <2>5, <2>6, <2>8, IInvParts DEF CoreInv
<1>15. CASE stack' = start /\ told' = told /\ state' \in States \ {"Performing"}
            /\ (handler # Nil => told[handler] = <<>> \/ Runs(handler, 1))
  <2>1. MgrTypeOK'
    BY <1>3, <1>10, <1>11, <1>15 DEF MgrTypeOK
  <2>2. FrameInv'
    BY <1>1, <1>2, <1>3, <1>9, <1>11, <1>15 DEF FrameInv, Ordered
  <2>3. HandlerInv'
    <3>1. handler # Nil => handler < a + 1
      BY <1>3, <1>5 DEF Logins
    <3>2. \A b \in Logins : b >= a + 1 => told[b] = <<>>
      BY <1>3, <1>5 DEF Logins
    <3>3. Running("login")'
      BY <1>7, <1>10, <1>15 DEF Running
    <3>4. Runs(handler, 1) => Runs(handler, 2)'
      <4>1. Runs(handler, 1) => 1 <= Len(stack) /\ start[1 + 1] = stack[1]
        BY <1>10 DEF Runs
      <4>2. 1 + 1 = 2
        OBVIOUS
      <4>3. Runs(handler, 1) => 2 <= Len(start) /\ start[2] = stack[1]
        BY <1>10, <4>1, <4>2
      <4> QED BY <1>11, <1>15, <4>3 DEF Runs
    <3> QED BY <1>1, <1>11, <1>15, <3>1, <3>2, <3>3, <3>4 DEF HandlerInv
  <2>4. HandlerAtMostOnce'
    BY <1>15 DEF IInv, HandlerAtMostOnce
  <2>5. ToldInv' /\ TokenFromOwnPage'
    BY <1>2, <1>13, <1>15, ToldKept
  <2>6. /\ LogInFrames' \subseteq LogInFrames \cup {f}
        /\ NativeFrames' \subseteq NativeFrames \cup (IF route = "native" THEN {f} ELSE {})
    BY <1>7, <1>10, <1>15 DEF LogInFrames, NativeFrames
  <2>7. PageInv'
    BY <1>1, <1>2, <1>7, <2>6, LogInPages
  <2> QED BY <1>1, <1>12, <2>1, <2>2, <2>3, <2>4, <2>5, <2>7, IInvParts DEF CoreInv
<1>16. CASE state = "Performing" /\ handler # Nil
  <2> DEFINE g == Frame("handler", handler, Nil)
             q == <<g>> \o start
             result == Told("cancelled", 0)
  <2>1. /\ state' = "Idle" /\ stack' = q
        /\ told' = [told EXCEPT ![handler] = Append(told[handler], result)]
    BY <1>1, <1>16 DEF ImplicitCancel, InvokeHandler
  <2>2. told[handler] = <<>> /\ handler \in Logins
    BY <1>5, <1>16 DEF IInv, HandlerInv
  <2>3. result \in Results /\ result.r = "cancelled"
    BY ToldFacts
  <2> HIDE DEF result
  <2>4. Append(told[handler], result) = <<result>> /\ <<result>> \in Seq(Results)
        /\ Len(<<result>>) = 1 /\ <<result>>[1] = result
    BY <2>2, <2>3
  <2>5. /\ told' \in [Logins -> Seq(Results)] /\ told'[handler] = <<result>>
        /\ \A b \in Logins : b # handler => told'[b] = told[b]
    BY <1>3, <2>1, <2>2, <2>4
  <2>6. g \in Frames /\ g.k = "handler" /\ g.a = handler
    BY <2>2, FrameType
  <2>7. Ordered(q, a + 1, handler, told')
    <3>1. a + 1 \in Nat /\ (a + 1) - 1 <= MaxLogins
      BY <1>4 DEF Logins
    <3> QED BY <1>9, <1>10, <2>2, <2>5, <3>1, OrderedHandler
  <2> HIDE DEF g
  <2>8. /\ q \in Seq(Frames) /\ Len(q) = Len(start) + 1 /\ q[1] = g
        /\ FramesOf(q) = {g} \cup FramesOf(start)
    BY <1>10, <2>6, Cons
  <2> HIDE DEF q
  <2>9. MgrTypeOK'
    BY <1>3, <1>11, <2>1, <2>5, <2>8 DEF MgrTypeOK, States
  <2>10. FrameInv'
    BY <1>1, <1>2, <1>3, <1>11, <2>1, <2>7 DEF FrameInv, Ordered
  <2>11. HandlerInv'
    <3>1. handler < a + 1
      BY <1>3, <1>5, <2>2 DEF Logins
    <3>2. \A b \in Logins : b >= a + 1 => told'[b] = <<>>
      <4> SUFFICES ASSUME NEW b \in Logins, b >= a + 1 PROVE told'[b] = <<>>
        OBVIOUS
      <4>1. b >= a /\ b # handler
        BY <1>3, <1>5, <2>2 DEF Logins
      <4> QED BY <1>5, <2>5, <4>1
    <3>3. Runs(handler, 1)'
      BY <1>10, <1>11, <2>1, <2>6, <2>8 DEF Runs
    <3> QED BY <1>1, <1>11, <2>1, <3>1, <3>2, <3>3 DEF HandlerInv
  <2>12. HandlerAtMostOnce'
    <3>0. \A b \in Logins : Len(told[b]) <= 1
      BY DEF IInv, HandlerAtMostOnce
    <3>1. ASSUME NEW b \in Logins PROVE Len(told'[b]) <= 1
      <4>1. CASE b = handler
        <5>1. told'[b] = <<result>>
          BY <2>5, <4>1
        <5>2. Len(told'[b]) = 1
          BY <2>4, <5>1
        <5> QED BY <5>2
      <4>2. CASE b # handler
        <5>1. told'[b] = told[b]
          BY <2>5, <4>2
        <5> QED BY <3>0, <5>1
      <4> QED BY <4>1, <4>2
    <3> QED BY <3>1 DEF HandlerAtMostOnce
  <2>13. ToldInv' /\ TokenFromOwnPage'
    <3>1. ASSUME NEW b \in Logins, NEW i \in 1..Len(told'[b]), told'[b][i].r = "token"
          PROVE  b # handler
      <4>1. ASSUME b = handler PROVE FALSE
        <5>1. told'[b] = <<result>>
          BY <2>5, <4>1
        <5>2. i = 1 /\ told'[b][i] = result
          BY <2>4, <3>1, <5>1
        <5> QED BY <2>3, <3>1, <5>2
      <4> QED BY <4>1
    <3>2. ASSUME NEW b \in Logins, NEW i \in 1..Len(told'[b]), told'[b][i].r = "token"
          PROVE  /\ told'[b][i].ch \in 1..Len(pages)
                 /\ pages[told'[b][i].ch].a = b \/ told'[b][i].ch \in reauthsAt[b]
      <4>1. told'[b] = told[b]
        BY <2>5, <3>1, <3>2
      <4>2. i \in 1..Len(told[b]) /\ told[b][i].r = "token"
        BY <3>2, <4>1
      <4> QED BY <4>1, <4>2 DEF IInv, ToldInv, TokenFromOwnPage
    <3> QED BY <1>2, <1>13, <3>2 DEF ToldInv, TokenFromOwnPage
  <2>14. /\ LogInFrames' \subseteq LogInFrames \cup {f}
         /\ NativeFrames' \subseteq NativeFrames \cup (IF route = "native" THEN {f} ELSE {})
    BY <1>7, <1>10, <2>1, <2>6, <2>8 DEF LogInFrames, NativeFrames
  <2>15. PageInv'
    BY <1>1, <1>2, <1>7, <2>14, LogInPages
  <2> QED BY <1>1, <1>12, <2>9, <2>10, <2>11, <2>12, <2>13, <2>15, IInvParts DEF CoreInv
<1>17. CASE state = "Performing" /\ handler = Nil
  <2>1. stack' = start /\ told' = told /\ state' = "Idle"
    BY <1>1, <1>17 DEF ImplicitCancel, InvokeHandler
  <2> QED BY <1>15, <1>17, <2>1 DEF States
<1>18. CASE state = "Idle"
  <2>1. stack' = start /\ told' = told /\ state' = "Start"
    BY <1>1, <1>18 DEF NoHandler
  <2>2. handler # Nil => told[handler] = <<>> \/ Runs(handler, 1)
    <3>1. ~Running("login")
      BY <1>1 DEF AppMayCall, Running
    <3> QED BY <3>1 DEF IInv, HandlerInv
  <2> QED BY <1>15, <2>1, <2>2 DEF States
<1> QED BY <1>3, <1>14, <1>16, <1>17, <1>18 DEF States

-----------------------------------------------------------------------------
(* Theorems                                                                *)

(* The invariant holds at the start: nothing has been asked and nobody told. *)
LEMMA InitInv == Init => IInv
<1> USE NilFacts
<1> SUFFICES ASSUME Init PROVE IInv
  OBVIOUS
<1>1. /\ setting \in Settings /\ state = "Idle" /\ handler = Nil /\ stack = <<>>
      /\ told = [a \in Logins |-> <<>>] /\ challenge = Nil
      /\ used = [ch \in Pages |-> 0] /\ pages = <<>> /\ mes = {} /\ reauths = {}
      /\ opens = {} /\ dismissals = {} /\ fallback = "none"
  BY DEF Init
<1>2. MgrTypeOK
  BY <1>1 DEF MgrTypeOK, States
<1>3. cache \in Tokens \cup {Nil} /\ token \in Tokens \cup {Nil}
  BY DEF Init, Tokens
<1>4. KeyTypeOK
  BY <1>1, <1>3 DEF KeyTypeOK
<1>5. AskTypeOK
  <2>1. {pendingURLOpen, expectingBackground} \subseteq BOOLEAN
    BY DEF Init
  <2>2. /\ {safariVC, presenting, authSession, web} \subseteq Pages \cup {Nil}
        /\ live = {} /\ outside = {} /\ opens = {}
    BY DEF Init
  <2>3. pages \in Seq([a : Logins \cup {Nil}, route : Routes]) /\ Len(pages) <= MaxChallenges
    BY <1>1
  <2> QED BY <2>1, <2>2, <2>3 DEF AskTypeOK
<1>6. active \in BOOLEAN
  BY <1>1, ConstantsAssumption DEF Init, HostForwardsOpenURL
<1>7. UiTypeOK
  <2>1. {active, dismissing, leaving} \subseteq BOOLEAN
    BY <1>6 DEF Init
  <2>2. /\ dismissals = {} /\ ending = {} /\ fallback = "none" /\ ui = "active"
        /\ launchURL = Nil /\ gone = {} /\ nextAtt \in 1..(MaxLogins + 1)
    BY DEF Init
  <2>3. reauthsAt \in [Logins -> SUBSET Pages]
    BY DEF Init
  <2> QED BY <2>1, <2>2, <2>3 DEF UiTypeOK
<1>8. FrameInv /\ HandlerInv /\ HandlerAtMostOnce /\ ToldInv /\ TokenFromOwnPage
  BY <1>1 DEF FrameInv, HandlerInv, HandlerAtMostOnce, ToldInv, TokenFromOwnPage
<1>9. ChallengeInv /\ ChallengeUsedOnce
  BY <1>1 DEF ChallengeInv, ChallengeUsedOnce
<1>10. PageInv
  <2>1. LogInFrames = {} /\ NativeFrames = {} /\ NativeOpens = {} /\ DisabledWaits = {}
    BY <1>1 DEF LogInFrames, NativeFrames, NativeOpens, DisabledWaits, FramesOf
  <2>2. Promised = 0
    BY <1>1, <2>1, FS_EmptySet DEF Promised
  <2>3. Spare >= 0
    BY <1>1, <2>2 DEF Spare
  <2> QED BY <1>1, <2>3, FS_EmptySet DEF PageInv
<1> QED BY <1>1, <1>2, <1>4, <1>5, <1>7, <1>8, <1>9, <1>10 DEF IInv, TypeOK

(* No variable changes. *)
LEMMA StutterInv ==
    ASSUME IInv, UNCHANGED vars
    PROVE  IInv'
<1>1. UNCHANGED <<state, handler, told, stack>> /\ UNCHANGED <<keyVars, netVars>>
      /\ UNCHANGED <<askVars, uiVars, appVars>>
  BY DEF vars, mgrVars
<1>2. UNCHANGED <<setting, nextAtt, pages, reauthsAt, opens, dismissals, fallback, launchURL,
                  mes, reauths>>
  BY <1>1 DEF askVars, netVars, uiVars, appVars
<1>3. Frames' = Frames /\ Routes' = Routes
  BY <1>2, SameSetting
<1>4. MgrTypeOK' /\ FrameInv'
  BY <1>1, <1>2, <1>3 DEF IInv, TypeOK, MgrTypeOK, FrameInv
<1>5. HandlerInv' /\ HandlerAtMostOnce'
  BY <1>1, <1>2 DEF IInv, HandlerInv, HandlerAtMostOnce, Runs, Running
<1>6. ToldInv' /\ TokenFromOwnPage'
  BY <1>1, <1>2, ToldKept
<1>7. KeyTypes' /\ KeyInv'
  BY <1>1, <1>2, KeysKept
<1>8. mes' \subseteq [url : AllTokenURLs, own : BOOLEAN]'
  BY <1>2, SameSetting DEF IInv, TypeOK, KeyTypeOK
<1>9. KeyTypeOK'
  BY <1>7, <1>8 DEF KeyTypes, KeyTypeOK
<1>10. PageInv'
  <2>1. Promised' = Promised
    BY <1>1, <1>2 DEF Promised, LogInFrames, NativeFrames, NativeOpens, DisabledWaits
  <2> QED BY <1>2, <2>1 DEF IInv, PageInv, Spare
<1>11. AskTypeOK' /\ UiTypeOK'
  BY <1>1, SameSetting, AskFacts DEF AskTypeOK, UiTypeOK, askVars, uiVars, appVars
<1> QED BY <1>2, <1>4, <1>5, <1>6, <1>7, <1>9, <1>10, <1>11, IInvParts DEF CoreInv

(* Every step keeps the invariant. *)
LEMMA NextInv == IInv /\ [Next]_vars => IInv'
<1> SUFFICES ASSUME IInv, [Next]_vars PROVE IInv'
  OBVIOUS
<1>1. CASE \E route \in Routes : LogIn(route)
  BY <1>1, LogInStep
<1>2. CASE LogOut
  BY <1>2, LogOutStep
<1>3. CASE RunFrames
  BY <1>3, ContinueLogInStep, ReLogInStep, HandlerReturnsStep, CallerReturnsStep,
     LaunchWithURLStep DEF RunFrames
<1>4. CASE Completions
  BY <1>4, OpenURLCompletesStep, DismissCompletesStep, MeCompletesStep, ReauthCompletesStep,
     SafariPresentsStep, AttemptBrowserLogInStep DEF Completions
<1>5. CASE UserEnds
  BY <1>5, SafariDidFinishStep, SessionCancelledStep, SessionAnswersStep, WebDialogEndsStep
     DEF UserEnds
<1>6. CASE \E ch \in outside : \E url \in Answers(ch) : FacebookAnswers(ch, url)
  BY <1>6, FacebookAnswersStep
<1>7. CASE DeepLinkArrives
  BY <1>7, DeepLinkStep
<1>8. CASE DidEnterBackground
  BY <1>8, DidEnterBackgroundStep
<1>9. CASE DidBecomeActive
  BY <1>9, DidBecomeActiveStep
<1>10. CASE \E url \in {Nil} \cup UNION {Answers(ch) : ch \in Elsewhere} : Relaunch(url)
  BY <1>10, RelaunchStep
<1>11. CASE UNCHANGED vars
  BY <1>11, StutterInv
<1> QED BY <1>1, <1>2, <1>3, <1>4, <1>5, <1>6, <1>7, <1>8, <1>9, <1>10, <1>11 DEF Next

(* The inductive invariant holds throughout. *)
THEOREM Invariance == Spec => []IInv
BY InitInv, NextInv, PTL DEF Spec

(* Every variable keeps its type; in particular the bound on pages never cuts a login
   short. *)
THEOREM TypeCorrect == Spec => []TypeOK
<1>1. IInv => TypeOK
  BY DEF IInv
<1> QED BY Invariance, <1>1, PTL

(* No login handler is called twice: invokeHandler:error: forgets the handler only once it
   has returned, but while it runs nothing but the app can call the manager. *)
THEOREM HandlerOnce == Spec => []HandlerAtMostOnce
<1>1. IInv => HandlerAtMostOnce
  BY DEF IInv
<1> QED BY Invariance, <1>1, PTL

(* The answer to a login page becomes the current token at most once:
   completeAuthentication: uses the expected challenge up. *)
THEOREM ChallengeOnce == Spec => []ChallengeUsedOnce
<1>1. IInv => ChallengeUsedOnce
  BY DEF IInv
<1> QED BY Invariance, <1>1, PTL

(* A handler that is given a token is given that of a page opened for its own login, or of
   a reauthentication that was under way when the login began. *)
THEOREM OwnToken == Spec => []TokenFromOwnPage
<1>1. IInv => TokenFromOwnPage
  BY DEF IInv
<1> QED BY Invariance, <1>1, PTL
=============================================================================
