----------------------------- MODULE FBSDKLogin -----------------------------
(***************************************************************************)
(* Logging in with Facebook: FBSDKLoginManager, the login completers, the  *)
(* current access token and FBSDKApplicationDelegate, which opens the      *)
(* login page and passes its answer, a URL, back to the manager.           *)
(*                                                                         *)
(* Everything runs on the main thread, so an event is one step, except     *)
(* that the app's login handler is called in the middle of one: what the   *)
(* SDK does after the handler has returned is a frame on `stack`, and no   *)
(* other event runs until the stack is empty.  UIKit, the user, Facebook   *)
(* and the host app are the environment.  An answer is a record: its kind, *)
(* the challenge it echoes, the user, whether it names the user, and which *)
(* permissions it grants.                                                  *)
(***************************************************************************)
EXTENDS Integers, Sequences, FiniteSets

CONSTANTS
    Settings,         \* the devices, host apps and bounds to look at
    MaxLogins,        \* bound: calls of logIn... by the app
    MaxChallenges,    \* bound: login pages opened, fallbacks included
    Nil               \* nothing

VARIABLE setting      \* the one this behaviour is about; it never changes

LoginBound          == setting.logins        \* bound: calls of logIn... here
Users               == setting.users         \* Facebook accounts
Grants              == setting.grants        \* what a token may grant
Routes              == setting.routes        \* ways this device can show the page
HostForwardsOpenURL == setting.forwards      \* the host calls FBSDKApplicationDelegate
HasWindow           == setting.window        \* there is a controller to present from
Transitions         == setting.transitions   \* ... which may be in a transition
Polite              == setting.polite        \* the app waits for its handler
Redelivery          == setting.redelivery    \* an answer may be delivered again
DeepLinks           == setting.deepLinks     \* URLs that are none of Facebook's

AllRoutes == {"native", "browser", "sfauth", "safari", "web"}

BrowserRoutes == Routes \cap {"browser", "sfauth", "safari"}

ASSUME ConstantsAssumption ==
    /\ MaxLogins \in Nat /\ MaxChallenges \in Nat
    /\ Nil \notin (1..MaxLogins) \cup (1..MaxChallenges)
    /\ \A s \in Settings :
          /\ s.logins \in 1..MaxLogins
          /\ s.routes \subseteq AllRoutes
          /\ "native" \in s.routes => s.routes \cap {"browser", "sfauth", "safari"} # {}
          /\ "web" \in s.routes => s.routes = {"web"}      \* a login behaviour
          /\ ~({"sfauth", "safari"} \subseteq s.routes)    \* iOS 11, or before
          /\ s.grants \subseteq {"none", "other", "requested"}
          /\ Nil \notin s.users
          /\ {s.forwards, s.window, s.transitions, s.polite, s.redelivery,
              s.deepLinks} \subseteq BOOLEAN

VARIABLES
    state,         \* _state
    handler,       \* _handler: the login whose handler it is, or Nil
    told,          \* what each login's handler was called with
    stack,         \* frames of the main thread below the running handler
    challenge,     \* expected challenge in the keychain, or Nil (survives death)
    token,         \* [FBSDKAccessToken currentAccessToken], or Nil
    cache,         \* the access token cache (survives death)
    used,          \* how often each page's answer became the current token
    pages,         \* login pages opened, in order: the login and the route
    pendingURLOpen, expectingBackground, active,   \* FBSDKApplicationDelegate
    safariVC,      \* _safariViewController: the page it shows, or Nil
    presenting,    \* a page whose SFSafariViewController waits for a transition
    dismissing,    \* _isDismissingSafariViewController
    dismissals,    \* dismissals under way: the answer and the captured opener
    authSession,   \* _authenticationSession: the page it shows, or Nil
    live,          \* pages whose SFAuthenticationSession may still answer
    ending,        \* pages whose session was cancelled by the SDK
    opens,         \* openURL calls dispatched to the main queue
    web,           \* g_currentDialog: the page it shows, or Nil
    outside,       \* pages the Facebook app, Safari or the SFVC may answer
    mes,           \* answers waiting for me and me/permissions, and whether
                   \* the app's manager waits (or the one made at launch)
    reauths,       \* results waiting for validateReauthentication, likewise
    fallback,      \* "none", "observer" or "spin": attemptBrowserLogIn pending
    ui,            \* "active" or "background"
    launchURL,     \* the URL the process was launched with, or Nil
    leaving,       \* another app was opened, this one is on its way out
    nextAtt,       \* number of the next call of logIn...
    gone,          \* logins whose process died
    reauthsAt      \* the reauthentications under way when each login began

mgrVars   == <<state, handler, told, stack>>
keyVars   == <<challenge, token, cache, used>>
askVars   == <<pages, pendingURLOpen, expectingBackground, safariVC, presenting,
               authSession, live, opens, web>>
netVars   == <<mes, reauths>>
uiVars    == <<active, dismissing, dismissals, ending, outside, fallback, ui, leaving,
               launchURL>>
appVars   == <<setting, nextAtt, gone, reauthsAt>>
vars      == <<mgrVars, keyVars, askVars, netVars, uiVars, appVars>>

-----------------------------------------------------------------------------
Logins == 1..MaxLogins
Pages  == 1..MaxChallenges     \* a page is known by its challenge
Tokens == [user : Users, ch : Pages \cup {0}]

\* Answers in a URL: a token, a cancellation, an error, or "service_disabled".
TokenURL(ch, u, known, grant) ==
    [kind |-> "token", ch |-> ch, user |-> u, known |-> known, grant |-> grant]
Bare(kind) ==
    [kind |-> kind, ch |-> 0, user |-> Nil, known |-> FALSE, grant |-> "none"]
TokenURLs(ch) ==
    {TokenURL(ch, u, known, grant) :
        u \in Users, known \in BOOLEAN, grant \in Grants}
ForeignURL == Bare("foreign")
AllTokenURLs == UNION {TokenURLs(ch) : ch \in Pages}
AllURLs ==
    AllTokenURLs \cup
    {Bare(kind) : kind \in {"cancel", "error", "disabled", "foreign"}}

Told(r, ch) == [r |-> r, ch |-> ch]
Results == [r : {"token", "cancelled", "error"}, ch : Pages \cup {0}]
Frame(k, a, route) == [k |-> k, a |-> a, route |-> route]
Then(k) == <<Frame(k, Nil, Nil)>>
Frames == [k : {"handler", "login", "relogin", "launch", "endSession",
                "endSafari"},
           a : Logins \cup {Nil}, route : Routes \cup {Nil}]
Running(k) == stack # <<>> /\ Head(stack).k = k

\* The manager, the keychain and the token, what is being asked, and the app.
States == {"Idle", "Start", "Performing"}
MgrTypeOK ==
    /\ state \in States
    /\ handler \in Logins \cup {Nil}
    /\ told \in [Logins -> Seq(Results)]
    /\ stack \in Seq(Frames)
KeyTypeOK ==
    /\ challenge \in Pages \cup {Nil}
    /\ token \in Tokens \cup {Nil} /\ cache \in Tokens \cup {Nil}
    /\ used \in [Pages -> Nat]
    /\ mes \subseteq [url : AllTokenURLs, own : BOOLEAN]
    /\ reauths \subseteq [was : Users, user : Users, ch : Pages, own : BOOLEAN]
AskTypeOK ==
    /\ pages \in Seq([a : Logins \cup {Nil}, route : Routes])
    /\ Len(pages) <= MaxChallenges
    /\ {pendingURLOpen, expectingBackground} \subseteq BOOLEAN
    /\ {safariVC, presenting, authSession, web} \subseteq Pages \cup {Nil}
    /\ live \subseteq Pages /\ outside \subseteq Pages
    /\ opens \subseteq [ch : Pages, route : {"native", "browser"}]
UiTypeOK ==
    /\ {active, dismissing, leaving} \subseteq BOOLEAN
    /\ dismissals \subseteq [url : AllURLs, opener : BOOLEAN]
    /\ ending \subseteq Pages
    /\ fallback \in {"none", "observer", "spin"}
    /\ ui \in {"active", "background"}
    /\ launchURL \in AllURLs \cup {Nil}
    /\ nextAtt \in 1..(MaxLogins + 1)
    /\ gone \subseteq Logins
    /\ reauthsAt \in [Logins -> SUBSET Pages]

TypeOK == /\ setting \in Settings
          /\ MgrTypeOK /\ KeyTypeOK /\ AskTypeOK /\ UiTypeOK

\* A running app with a fresh manager; a token may be cached from before.
Init ==
    /\ setting \in Settings
    /\ state = "Idle" /\ handler = Nil
    /\ told = [a \in Logins |-> <<>>]
    /\ stack = <<>>
    /\ challenge = Nil
    /\ cache \in {Nil} \cup {[user |-> u, ch |-> 0] : u \in Users}
    /\ token = IF HostForwardsOpenURL THEN cache ELSE Nil
    /\ used = [ch \in Pages |-> 0]
    /\ pages = <<>>
    /\ pendingURLOpen = FALSE /\ expectingBackground = FALSE
    /\ active = HostForwardsOpenURL
    /\ safariVC = Nil /\ presenting = Nil /\ authSession = Nil /\ web = Nil
    /\ dismissing = FALSE /\ dismissals = {}
    /\ live = {} /\ ending = {} /\ opens = {} /\ outside = {}
    /\ mes = {} /\ reauths = {}
    /\ fallback = "none"
    /\ ui = "active" /\ leaving = FALSE /\ launchURL = Nil
    /\ nextAtt = 1
    /\ gone = {}
    /\ reauthsAt = [a \in Logins |-> {}]

-----------------------------------------------------------------------------
(* FBSDKLoginManager: ending a login *)

\* invokeHandler:error: goes back to Idle and calls the handler, which stays
\* in _handler until it returns.  `rest` is what the caller does afterwards.
InvokeHandler(result, rest) ==
    /\ state' = "Idle"
    /\ UNCHANGED handler
    /\ \/ /\ handler # Nil
          /\ told' = [told EXCEPT ![handler] = Append(@, result)]
          /\ stack' = <<Frame("handler", handler, Nil)>> \o rest
       \/ /\ handler = Nil
          /\ stack' = rest
          /\ UNCHANGED told

\* The event leaves _state at st and does not call the handler.
NoHandler(st, rest) ==
    /\ state' = st
    /\ stack' = rest
    /\ UNCHANGED <<handler, told>>

ImplicitCancel(rest) == InvokeHandler(Told("cancelled", 0), rest)

\* A manager is done: the app's calls the handler, the one made at launch has
\* none.
ManagerDone(own, result, rest) ==
    IF own THEN InvokeHandler(result, rest) ELSE NoHandler(state, rest)

\* setCurrentAccessToken: with a new token, which is cached too.
SetCurrentAccessToken(t) ==
    /\ token' = t
    /\ cache' = token'
    /\ used' = [used EXCEPT ![t.ch] = @ + 1]

\* determineRecentlyGrantedPermissions: with a token already there, only the
\* permissions that were asked for count; the manager made at launch has asked
\* for none, so all count.
RecentlyGranted(p, own) ==
    \/ p.grant = "requested"
    \/ p.grant = "other" /\ (token = Nil \/ ~own)

\* Variant: any challenge passes.
FailedIgnoringChallenge(p) == p.kind = "error"

\* An error, or a token whose challenge is not the expected one.
Failed(p) == p.kind = "error" \/ (p.kind = "token" /\ challenge # p.ch)

\* Variant: the challenge outlives its answer.
KeepChallenge == challenge' = challenge

\* storeExpectedChallenge:nil, whatever the answer.
ClearChallenge == challenge' = Nil

\* completeAuthentication:expectChallenge:YES.
CompleteAuthentication(p, own, st, rest) ==
    LET granted == p.kind = "token" /\ ~Failed(p) /\ RecentlyGranted(p, own) IN
    /\ ClearChallenge
    /\ \/ /\ granted /\ token # Nil
          /\ reauths' = reauths \cup
                {[was |-> token.user, user |-> p.user, ch |-> p.ch, own |-> own]}
          /\ NoHandler(st, rest)
          /\ UNCHANGED <<token, cache, used>>
       \/ /\ granted /\ token = Nil
          /\ SetCurrentAccessToken([user |-> p.user, ch |-> p.ch])
          /\ ManagerDone(own, Told("token", p.ch), rest)
          /\ UNCHANGED reauths
       \/ /\ ~granted
          /\ ManagerDone(own, Told(IF Failed(p) THEN "error" ELSE "cancelled", 0), rest)
          /\ UNCHANGED <<token, cache, used, reauths>>

\* FBSDKLoginURLCompleter completeLogIn, except for its browser fallback.
CompleteLogIn(url, own, st, rest) ==
    \/ /\ url.kind = "token" /\ ~url.known
       /\ mes' = mes \cup {[url |-> url, own |-> own]}
       /\ NoHandler(st, rest)
       /\ UNCHANGED <<keyVars, reauths>>
    \/ /\ ~(url.kind = "token" /\ ~url.known)
       /\ CompleteAuthentication(url, own, st, rest)
       /\ UNCHANGED mes

-----------------------------------------------------------------------------
(* FBSDKLoginManager: opening a login page *)

\* Pages that may still be opened, less those already promised: to a frame, to a
\* waiting fallback, to a native login that may yet fail, or to an answer that waits
\* for a dismissal.  It keeps the bound from stopping the SDK half-way.
FramesOf(s) == {s[i] : i \in 1..Len(s)}
LogInFrames    == {f \in FramesOf(stack) : f.k \in {"login", "relogin"}}
NativeFrames   == {f \in FramesOf(stack) : f.k = "login" /\ f.route = "native"}
NativeOpens    == {o \in opens : o.route = "native"}
DisabledWaits  == {d \in dismissals : d.url.kind = "disabled"}
Promised == Cardinality(LogInFrames) + Cardinality(NativeFrames)
            + Cardinality(NativeOpens) + Cardinality(DisabledWaits)
            + (IF fallback = "none" THEN 0 ELSE 1)
Spare == MaxChallenges - Len(pages) - Promised
PagesNeeded(route) == IF route = "native" THEN 2 ELSE 1

\* logInWithBehavior: stores a new challenge and shows the page for login a.
LogInWithBehavior(a, route) ==
    LET ch == Len(pages) + 1 IN
    /\ pages' = Append(pages, [a |-> a, route |-> route])
    /\ challenge' = ch
    /\ IF route = "web"
       THEN /\ web' = ch                        \* any other dialog is dismissed
            /\ UNCHANGED <<pendingURLOpen, expectingBackground>>
       ELSE /\ pendingURLOpen' = TRUE
            /\ expectingBackground' = (route \in {"native", "browser"})
            /\ UNCHANGED web
    /\ opens' = IF route \in {"native", "browser"}
                THEN opens \cup {[ch |-> ch, route |-> route]} ELSE opens
    /\ IF route = "sfauth"                      \* a session let go of is gone
       THEN /\ authSession' = ch
            /\ live' = (live \ {authSession}) \cup {ch}
       ELSE UNCHANGED <<authSession, live>>
    /\ \/ /\ route = "safari" /\ HasWindow      \* at once, or after a transition
          /\ \/ /\ safariVC' = ch
                /\ outside' = outside \cup {ch}
                /\ UNCHANGED presenting
             \/ /\ Transitions
                /\ presenting' = ch
                /\ UNCHANGED <<safariVC, outside>>
       \/ /\ ~(route = "safari" /\ HasWindow)
          /\ UNCHANGED <<safariVC, presenting, outside>>

\* The completion block is called at once with YES for these routes.
StateAfterOpen(route) ==
    IF route = "web" \/ (route = "safari" /\ HasWindow) THEN "Performing" ELSE state

-----------------------------------------------------------------------------
(* The app *)

Waiting(a) == told[a] = <<>> /\ a \notin gone

\* The app may call the SDK from an event of its own or from a login handler.
AppMayCall == stack = <<>> \/ (Running("handler") /\ ~Polite)

\* logInWith...Permissions: validateLoginStartState refuses, cancels the login
\* in progress (and leaves _state Idle), or starts.
LogIn(route) ==
    LET a == nextAtt
        start == <<Frame("login", a, route)>> \o stack IN
    /\ AppMayCall
    /\ ui = "active"
    /\ a <= LoginBound /\ Spare >= PagesNeeded(route)
    /\ Polite => \A b \in 1..(a - 1) : ~Waiting(b)
    /\ nextAtt' = a + 1
    /\ \/ /\ state = "Start"
          /\ NoHandler(state, stack)
       \/ /\ state = "Performing"
          /\ ImplicitCancel(start)
       \/ /\ state = "Idle"
          /\ NoHandler("Start", start)
    /\ UNCHANGED <<setting, keyVars, askVars, netVars, uiVars, gone, reauthsAt>>

\* logInWithPermissions:handler:, the rest of the call.
ContinueLogIn ==
    /\ Running("login")
    /\ LET f == Head(stack) IN
       /\ handler' = f.a
       /\ reauthsAt' = [reauthsAt EXCEPT ![f.a] = {r.ch : r \in reauths}]
       /\ LogInWithBehavior(f.a, f.route)
       /\ state' = StateAfterOpen(f.route)
    /\ stack' = Tail(stack)
    /\ UNCHANGED <<told, token, cache, used, netVars, active, dismissing,
                   dismissals, ending, fallback, ui, leaving, launchURL,
                   setting, nextAtt, gone>>

\* logInWithBehavior:FBSDKLoginBehaviorBrowser as a fallback, for whoever's
\* handler and permissions the manager holds now.
ReLogIn(route) ==
    /\ Running("relogin")
    /\ LogInWithBehavior(handler, route)
    /\ NoHandler(StateAfterOpen(route), Tail(stack))
    /\ UNCHANGED <<token, cache, used, netVars, active, dismissing, dismissals,
                   ending, fallback, ui, leaving, launchURL, appVars>>

\* Variant: the handler is never forgotten.
HandlerKept(a) == handler

\* invokeHandler:error: forgets handler a unless it was replaced meanwhile.
HandlerAfter(a) == IF handler = a THEN Nil ELSE handler

\* The handler returns to invokeHandler:error:.
HandlerReturns ==
    /\ Running("handler")
    /\ stack' = Tail(stack)
    /\ handler' = HandlerAfter(Head(stack).a)
    /\ UNCHANGED <<state, told, keyVars, askVars, netVars, uiVars, appVars>>

\* What the callers of the manager do after it has returned.
CallerReturns ==
    /\ \/ /\ Running("endSession")
          /\ authSession' = Nil
          /\ live' = live \ {authSession}
          /\ UNCHANGED <<safariVC, outside>>
       \/ /\ Running("endSafari")
          /\ safariVC' = Nil
          /\ outside' = outside \ {safariVC}
          /\ UNCHANGED <<authSession, live>>
    /\ stack' = Tail(stack)
    /\ UNCHANGED <<state, handler, told, keyVars, pages, pendingURLOpen,
                   expectingBackground, presenting, opens, web, netVars, active,
                   dismissing, dismissals, ending, fallback, ui, leaving,
                   launchURL, appVars>>

LogOut ==
    /\ AppMayCall
    /\ token # Nil
    /\ token' = Nil
    /\ cache' = Nil
    /\ UNCHANGED <<mgrVars, challenge, used, askVars, netVars, uiVars, appVars>>

-----------------------------------------------------------------------------
(* The answer comes back *)

\* The answers to page ch.  Only the Facebook app says "service_disabled", and
\* here only while the bound allows the page that the SDK then opens.
Answers(ch) ==
    TokenURLs(ch) \cup {Bare("cancel"), Bare("error")} \cup
    (IF /\ pages[ch].route = "native"
        /\ Spare > 0 /\ fallback = "none"
     THEN {Bare("disabled")} ELSE {})

\* Pages in another app, which outlive this one.
Elsewhere == {ch \in outside : pages[ch].route \in {"native", "browser"}}

\* application:openURL: of the manager, called when it is the pending opener
\* and _state is st.  Anything but an answer from Facebook cancels a login
\* being performed; service_disabled falls back to the browser once the app is
\* active.
ManagerOpenURL(url, st, rest) ==
    \/ /\ url.kind = "foreign"
       /\ IF st = "Performing" THEN ImplicitCancel(rest) ELSE NoHandler(st, rest)
       /\ UNCHANGED <<keyVars, netVars, fallback>>
    \/ /\ url.kind = "disabled" /\ active
       /\ NoHandler(st, Then("relogin") \o rest)
       /\ UNCHANGED <<keyVars, netVars, fallback>>
    \/ /\ url.kind = "disabled" /\ ~active
       /\ NoHandler(st, rest)
       /\ fallback' = "observer"
       /\ UNCHANGED <<keyVars, netVars>>
    \/ /\ url.kind \in {"token", "cancel", "error"}
       /\ CompleteLogIn(url, TRUE, st, rest)
       /\ UNCHANGED fallback

OpenerOpenURL(opener, url, st, rest) ==
    IF opener
    THEN ManagerOpenURL(url, st, rest)
    ELSE NoHandler(st, rest) /\ UNCHANGED <<keyVars, netVars, fallback>>

\* application:openURL:sourceApplication:annotation: of the delegate, called by
\* the host for a page that leaves others, or by the callback of a session that
\* has left `sessions`.
DelegateOpenURL(url, st, sessions, others, rest) ==
    /\ \/ /\ safariVC # Nil                     \* dismiss it first
          /\ safariVC' = Nil
          /\ outside' = others \ {safariVC}
          /\ dismissing' = TRUE
          /\ dismissals' = dismissals \cup {[url |-> url, opener |-> pendingURLOpen]}
          /\ NoHandler(st, rest)
          /\ live' = sessions
          /\ UNCHANGED <<keyVars, netVars, fallback, pendingURLOpen, authSession,
                         ending>>
       \/ /\ safariVC = Nil
          /\ authSession' = Nil
          /\ live' = sessions \ {authSession}
          /\ ending' = ending \cup (sessions \cap {authSession})
          /\ pendingURLOpen' = FALSE
          /\ dismissing' = FALSE
          /\ OpenerOpenURL(pendingURLOpen, url, st, rest)
          /\ outside' = others
          /\ UNCHANGED <<safariVC, dismissals>>
    /\ UNCHANGED <<pages, expectingBackground, presenting, opens, web, active,
                   ui, leaving, launchURL, appVars>>

\* A URL from the Facebook app, from Safari or from the SFSafariViewController.
FacebookAnswers(ch, url) ==
    /\ stack = <<>>
    /\ HostForwardsOpenURL
    /\ ch \in outside /\ url \in Answers(ch)
    /\ ch \in Elsewhere => ~leaving            \* it answers by coming back
    /\ DelegateOpenURL(url, state, live, IF Redelivery THEN outside ELSE outside \ {ch},
                       <<>>)

\* A URL that is none of Facebook's.
DeepLinkArrives ==
    /\ stack = <<>>
    /\ HostForwardsOpenURL /\ DeepLinks
    /\ DelegateOpenURL(ForeignURL, state, live, outside, <<>>)

\* The SFAuthenticationSession calls back with an answer: completion(YES), then
\* the delegate's openURL, then _authenticationSession = nil.
SessionAnswers(ch, url) ==
    /\ stack = <<>>
    /\ ch \in live /\ url \in Answers(ch)
    /\ DelegateOpenURL(url, "Performing", live \ {ch}, outside, Then("endSession"))

\* ... or with an error, because the user closed it or the SDK cancelled it.
SessionCancelled(ch) ==
    /\ stack = <<>>
    /\ ch \in live \cup ending
    /\ live' = live \ {ch}
    /\ ending' = ending \ {ch}
    /\ ImplicitCancel(Then("endSession"))
    /\ UNCHANGED <<keyVars, pages, pendingURLOpen, expectingBackground, safariVC,
                   presenting, authSession, opens, web, netVars, active,
                   dismissing, dismissals, outside, fallback, ui, leaving,
                   launchURL, appVars>>

\* The dismissal of the SFSafariViewController completes.
DismissCompletes(d) ==
    /\ stack = <<>>
    /\ d \in dismissals
    /\ dismissals' = dismissals \ {d}
    /\ pendingURLOpen' = FALSE
    /\ dismissing' = FALSE
    /\ OpenerOpenURL(d.opener, d.url, state, <<>>)
    /\ UNCHANGED <<pages, expectingBackground, safariVC, presenting, authSession,
                   live, opens, web, active, ending, outside, ui, leaving,
                   launchURL, appVars>>

\* A transition ends and the SFSafariViewController appears.
SafariPresents ==
    /\ stack = <<>>
    /\ presenting # Nil
    /\ safariVC' = presenting
    /\ outside' = outside \cup {presenting}
    /\ presenting' = Nil
    /\ UNCHANGED <<mgrVars, keyVars, pages, pendingURLOpen, expectingBackground,
                   authSession, live, opens, web, netVars, active, dismissing,
                   dismissals, ending, fallback, ui, leaving, launchURL, appVars>>

\* safariViewControllerDidFinish: the user taps Done, or the parent of the
\* SFSafariViewController was dismissed (viewControllerDidDisappear).
SafariDidFinish ==
    /\ stack = <<>>
    /\ safariVC # Nil
    /\ pendingURLOpen' = FALSE
    /\ OpenerOpenURL(pendingURLOpen, ForeignURL, state, Then("endSafari"))
    /\ UNCHANGED <<pages, expectingBackground, safariVC, presenting, authSession,
                   live, opens, web, active, dismissing, dismissals, ending,
                   outside, ui, leaving, launchURL, appVars>>

\* FBSDKWebDialog completes, fails or is cancelled; without a token it counts
\* as cancelled.
WebAnswers == IF web = Nil THEN {} ELSE TokenURLs(web) \cup {Bare("cancel"), Bare("error")}

WebDialogEnds(url) ==
    /\ stack = <<>>
    /\ url \in WebAnswers
    /\ web' = Nil
    /\ CompleteLogIn(url, TRUE, state, <<>>)
    /\ UNCHANGED <<pages, pendingURLOpen, expectingBackground, safariVC, presenting,
                   authSession, live, opens, uiVars, appVars>>

-----------------------------------------------------------------------------
(* Requests and dispatched calls complete *)

\* The block dispatched by openURL:sender:handler: has run and UIKit has called
\* its completion handler.
OpenURLCompletes(o, success) ==
    /\ stack = <<>>
    /\ o \in opens
    /\ opens' = opens \ {o}
    /\ \/ /\ success /\ ui = "active"            \* it fails in the background
          /\ NoHandler("Performing", <<>>)
          /\ outside' = outside \cup {o.ch}
          /\ leaving' = TRUE
       \/ /\ ~success /\ o.route = "native"
          /\ NoHandler(state, Then("relogin"))
          /\ UNCHANGED <<outside, leaving>>
       \/ /\ ~success /\ o.route = "browser"
          /\ InvokeHandler(Told("error", 0), <<>>)
          /\ UNCHANGED <<outside, leaving>>
    /\ UNCHANGED <<keyVars, pages, pendingURLOpen, expectingBackground, safariVC,
                   presenting, authSession, live, web, netVars, active,
                   dismissing, dismissals, ending, fallback, ui, launchURL,
                   appVars>>

\* FBSDKLoginRequestMeAndPermissions: both requests have completed.
MeCompletes(m, ok) ==
    /\ stack = <<>>
    /\ m \in mes
    /\ mes' = mes \ {m}
    /\ CompleteAuthentication(IF ok THEN m.url ELSE Bare("error"), m.own, state, <<>>)
    /\ UNCHANGED <<askVars, uiVars, appVars>>

\* Variant: whoever the new token belongs to is accepted.
AnyUser(r, ok) == ok

\* The new token belongs to the user of the token that was current when the
\* request was sent.
SameUser(r, ok) == ok /\ r.user = r.was

\* validateReauthentication: /me names the user of the new token, or fails; it
\* is compared with the token that was current when the request was sent.
ReauthCompletes(r, ok) ==
    /\ stack = <<>>
    /\ r \in reauths
    /\ reauths' = reauths \ {r}
    /\ \/ /\ SameUser(r, ok)
          /\ SetCurrentAccessToken([user |-> r.user, ch |-> r.ch])
          /\ ManagerDone(r.own, Told("token", r.ch), <<>>)
       \/ /\ ~SameUser(r, ok)
          /\ ManagerDone(r.own, Told("error", 0), <<>>)
          /\ UNCHANGED <<token, cache, used>>
    /\ UNCHANGED <<challenge, askVars, mes, uiVars, appVars>>

-----------------------------------------------------------------------------
(* The application comes and goes *)

DidEnterBackground ==
    /\ stack = <<>>
    /\ ui = "active"
    /\ ui' = "background"
    /\ active' = FALSE
    /\ expectingBackground' = FALSE
    /\ leaving' = FALSE
    /\ UNCHANGED <<mgrVars, keyVars, pages, pendingURLOpen, safariVC, presenting,
                   authSession, live, opens, web, netVars, dismissing,
                   dismissals, ending, outside, fallback, launchURL, appVars>>

\* Variant: only a login that has not opened its page yet is cancelled.
ReturnCancelsEarly == pendingURLOpen /\ state = "Start"

\* applicationDidBecomeActive: of the pending opener cancels its login.
ReturnCancels == pendingURLOpen /\ state = "Performing"

\* UIApplicationDidBecomeActive: after the background, or after an alert that
\* only interrupted the app.  A fallback waiting for it goes ahead, or polls
\* when its observer runs before the delegate's.
DidBecomeActive ==
    LET notExpectingBackground == /\ ~expectingBackground /\ ~dismissing
                                  /\ safariVC = Nil /\ authSession = Nil
        goAhead == fallback = "observer" /\ notExpectingBackground
    IN
    /\ stack = <<>>
    /\ ui' = "active"
    /\ active' = (active \/ notExpectingBackground)
    /\ \E first \in BOOLEAN :
          LET rest == IF goAhead /\ first THEN Then("relogin") ELSE <<>> IN
          /\ fallback' = IF fallback # "observer" THEN fallback
                         ELSE IF goAhead /\ first THEN "none" ELSE "spin"
          /\ IF notExpectingBackground /\ ReturnCancels
             THEN ImplicitCancel(rest)
             ELSE NoHandler(state, rest)
    /\ UNCHANGED <<keyVars, askVars, netVars, dismissing, dismissals, ending,
                   outside, leaving, launchURL, appVars>>

\* attemptBrowserLogIn, dispatched again and again until the delegate is active.
AttemptBrowserLogIn ==
    /\ stack = <<>>
    /\ fallback = "spin" /\ active
    /\ fallback' = "none"
    /\ NoHandler(state, Then("relogin"))
    /\ UNCHANGED <<keyVars, askVars, netVars, active, dismissing, dismissals,
                   ending, outside, ui, leaving, launchURL, appVars>>

\* The system kills the app in the background and it is launched again, perhaps
\* by an answer; only the keychain and the token cache survive.  (A launch by a
\* service_disabled answer would make a second manager log in: left out.)
Relaunch(url) ==
    /\ stack = <<>>
    /\ ui = "background"
    /\ url # Nil => HostForwardsOpenURL /\ url.kind # "disabled"
    /\ state' = "Idle" /\ handler' = Nil
    /\ token' = IF HostForwardsOpenURL THEN cache ELSE Nil
    /\ pendingURLOpen' = FALSE /\ expectingBackground' = FALSE
    /\ active' = FALSE
    /\ safariVC' = Nil /\ presenting' = Nil /\ authSession' = Nil /\ web' = Nil
    /\ dismissing' = FALSE /\ dismissals' = {}
    /\ live' = {} /\ ending' = {} /\ opens' = {}
    /\ mes' = {} /\ reauths' = {}
    /\ fallback' = "none"
    /\ launchURL' = url
    /\ stack' = IF url = Nil THEN <<>> ELSE Then("launch")
    /\ gone' = gone \cup {a \in 1..(nextAtt - 1) : Waiting(a)}
    /\ outside' = Elsewhere
    /\ leaving' = FALSE
    /\ UNCHANGED <<told, challenge, cache, used, pages, ui, setting, nextAtt,
                   reauthsAt>>

\* didFinishLaunchingWithOptions: gives the URL to a manager made on the spot.
LaunchWithURL ==
    /\ Running("launch")
    /\ launchURL' = Nil
    /\ CompleteLogIn(launchURL, FALSE, state, <<>>)
    /\ UNCHANGED <<askVars, active, dismissing, dismissals, ending, outside,
                   fallback, ui, leaving, appVars>>

-----------------------------------------------------------------------------
\* What goes on by itself once it is under way.
RunFrames ==
    \/ ContinueLogIn
    \/ \E route \in BrowserRoutes : ReLogIn(route)
    \/ HandlerReturns
    \/ CallerReturns
    \/ LaunchWithURL

Completions ==
    \/ \E o \in opens, success \in BOOLEAN : OpenURLCompletes(o, success)
    \/ \E d \in dismissals : DismissCompletes(d)
    \/ \E m \in mes, ok \in BOOLEAN : MeCompletes(m, ok)
    \/ \E r \in reauths, ok \in BOOLEAN : ReauthCompletes(r, ok)
    \/ SafariPresents
    \/ AttemptBrowserLogIn

UserEnds ==
    \/ SafariDidFinish
    \/ \E ch \in live \cup ending : SessionCancelled(ch)
    \/ \E ch \in live : \E url \in Answers(ch) : SessionAnswers(ch, url)
    \/ \E url \in WebAnswers : WebDialogEnds(url)

Next ==
    \/ \E route \in Routes : LogIn(route)
    \/ LogOut
    \/ RunFrames
    \/ Completions
    \/ UserEnds
    \/ \E ch \in outside : \E url \in Answers(ch) : FacebookAnswers(ch, url)
    \/ DeepLinkArrives
    \/ DidEnterBackground
    \/ DidBecomeActive
    \/ \E url \in {Nil} \cup UNION {Answers(ch) : ch \in Elsewhere} : Relaunch(url)

Spec == Init /\ [][Next]_vars

\* The main thread runs on, requests and animations end, the user answers or
\* closes a page shown inside the app, and an app that opened another one goes
\* to the background and comes back some day.  attemptBrowserLogIn runs on every
\* turn of the main run loop, so it sees the app active if it often is.
\* Facebook need never answer.
FairSpec ==
    /\ Spec
    /\ WF_vars(RunFrames)
    /\ WF_vars(Completions)
    /\ WF_vars(UserEnds)
    /\ SF_vars(AttemptBrowserLogIn)
    /\ WF_vars(leaving /\ DidEnterBackground)
    /\ WF_vars(ui = "background" /\ DidBecomeActive)

-----------------------------------------------------------------------------
(* Properties *)

\* No login handler is called twice, whatever answers, cancellations, fallbacks
\* and further logins are interleaved: the caller of logInWithReadPermissions:
\* hears one outcome.  invokeHandler:error: forgets the handler only after it
\* has returned, and many callers of it race.
HandlerAtMostOnce == \A a \in Logins : Len(told[a]) <= 1

\* The answer to one login page becomes the current access token at most once,
\* even when the URL is delivered again, or to a relaunched app whose keychain
\* still holds the challenge: completeAuthentication: uses the challenge up.
ChallengeUsedOnce == \A ch \in Pages : used[ch] <= 1

\* A handler that is given a token is given the one of a page opened for that
\* very login, unless a reauthentication of an earlier login was still being
\* validated when this login began (validateReauthentication: calls whatever
\* handler is there by then).
TokenFromOwnPage ==
    \A a \in Logins : \A i \in 1..Len(told[a]) :
        told[a][i].r = "token" =>
            \/ pages[told[a][i].ch].a = a
            \/ told[a][i].ch \in reauthsAt[a]

\* The frames on the stack: a login about to go on is new to the manager, and each
\* has one frame; so has the fallback; a manager made at launch has a URL.
FrameInv ==
    \A i \in 1..Len(stack) :
        /\ stack[i].k = "login" =>
              /\ stack[i].a \in 1..(nextAtt - 1) /\ stack[i].route \in Routes
              /\ stack[i].a # handler /\ told[stack[i].a] = <<>>
              /\ \A j \in 1..Len(stack) :
                    stack[j].k = "login" /\ stack[j].a = stack[i].a => i = j
        /\ stack[i].k = "relogin" =>
              \A j \in 1..Len(stack) : stack[j].k = "relogin" => i = j
        /\ stack[i].k = "launch" => launchURL # Nil

\* A handler that was called is still in _handler only while it runs: its frame is
\* on top, or below a login that it has just begun.
Runs(a, i) == i <= Len(stack) /\ stack[i].k = "handler" /\ stack[i].a = a
HandlerInv ==
    /\ handler # Nil => handler < nextAtt
    /\ \A a \in Logins : a >= nextAtt => told[a] = <<>>
    /\ (handler # Nil /\ told[handler] # <<>>) =>
          /\ state # "Performing"
          /\ Runs(handler, 1) \/ (Running("login") /\ Runs(handler, 2))

\* The pages promised fit in the bound.
PageInv ==
    /\ IsFiniteSet(opens) /\ IsFiniteSet(dismissals)
    /\ \A o \in opens : o.ch \in 1..Len(pages)
    /\ Spare >= 0

\* A page's answer is expected, being validated or used, and only one of them.
Expected(ch) ==
    /\ ch \in 1..Len(pages) /\ used[ch] = 0
    /\ handler # Nil => pages[ch].a = handler
Validated(ch) ==
    /\ ch \in 1..Len(pages) /\ used[ch] = 0
    /\ handler # Nil => pages[ch].a = handler \/ ch \in reauthsAt[handler]
ChallengeInv ==
    /\ challenge # Nil => Expected(challenge) /\ \A r \in reauths : r.ch # challenge
    /\ \A r \in reauths : Validated(r.ch) /\ \A s \in reauths : s.ch = r.ch => s = r
    /\ \A ch \in Pages : ch > Len(pages) => used[ch] = 0

\* Handlers are given tokens of pages that were opened.
ToldInv ==
    \A a \in Logins : \A i \in 1..Len(told[a]) :
        told[a][i].r = "token" => told[a][i].ch \in 1..Len(pages)

IInv == /\ TypeOK /\ FrameInv /\ HandlerInv /\ PageInv /\ ChallengeInv /\ ToldInv
        /\ HandlerAtMostOnce /\ ChallengeUsedOnce /\ TokenFromOwnPage

\* The current token never passes from one user to another without a logout in
\* between: a login over an existing token is validated first and fails with
\* FBSDKLoginUserMismatchErrorCode.
UserSwitchNeedsLogOut ==
    [][token # Nil /\ token' # Nil => token'.user = token.user]_vars

\* The page could not be shown: openURLWithSafariViewController: found no view
\* controller to present it from and returned without calling its handler.
NeverShown(a) ==
    ~HasWindow /\ \E ch \in 1..Len(pages) : pages[ch] = [a |-> a, route |-> "safari"]

\* attemptBrowserLogIn waits for the delegate to become active, which it missed
\* while an SFSafariViewController was shown or dismissed; only the next
\* didBecomeActive can help, and it need not come.
FallbackMissed == fallback # "none" /\ ui = "active" /\ ~active

\* An SFSafariViewController of an earlier page was closed or dismissed late: the
\* delegate set _pendingURLOpen to nil, and the later page has no opener.
OpenerForgotten ==
    ~pendingURLOpen /\ \E ch \in 1..(Len(pages) - 1) : pages[ch].route = "safari"

\* A login begun by an app that waits for its handlers ends in a call of its
\* handler, unless the process dies first: closing the page, coming back from
\* the Facebook app or from Safari without an answer, a failed open and a failed
\* request all end it.  The three exceptions are ways the code has of leaving a
\* login without an end; all of them need an SFSafariViewController.
HandlersCalled ==
    <>[](Polite => \A a \in Logins :
            nextAtt > a /\ Waiting(a) => NeverShown(a) \/ FallbackMissed \/ OpenerForgotten)

=============================================================================
