---------------------------- MODULE MCFBSDKLogin ----------------------------
(***************************************************************************)
(* Small instances of FBSDKLogin: which devices and host apps are looked   *)
(* at, with how many logins, users and kinds of grants.                    *)
(***************************************************************************)
EXTENDS FBSDKLogin, TLC

CONSTANTS u1, u2

\* A host that forwards its events and waits for its handlers, on a device
\* with the Facebook app and a browser.
Plain == [logins |-> 2, users |-> {u1}, grants |-> {"requested"},
          routes |-> {"native", "browser"}, forwards |-> TRUE, window |-> TRUE,
          transitions |-> FALSE, polite |-> TRUE, redelivery |-> FALSE,
          deepLinks |-> FALSE]

TwoUsers == [Plain EXCEPT !.users = {u1, u2}, !.grants = {"requested", "other"}]

\* bubble: its delegate forwards nothing.  And the web login behaviour.
BubbleSettings ==
    {[TwoUsers EXCEPT !.forwards = FALSE, !.routes = {"native", "browser", "sfauth"}],
     [TwoUsers EXCEPT !.logins = 3, !.routes = {"web"}]}

\* Apps that do not wait: answers delivered twice through other apps, three
\* logins through SFAuthenticationSession, two through the
\* SFSafariViewController with transitions and deep links in between.
Impatient == [Plain EXCEPT !.polite = FALSE]
OverlapSettings ==
    {[Impatient EXCEPT !.redelivery = TRUE],
     [Impatient EXCEPT !.logins = 3, !.grants = {"requested", "other"},
                       !.routes = {"sfauth"}, !.deepLinks = TRUE],
     [Impatient EXCEPT !.routes = {"native", "safari"}, !.transitions = TRUE,
                       !.deepLinks = TRUE]}

\* Coming back from another app or from the SFSafariViewController: with nothing
\* to present it from, twice with transitions, and with an answer that is
\* delivered again.
SafariHost == [Plain EXCEPT !.routes = {"native", "safari"}]
ReturnSettings ==
    {Plain,
     [TwoUsers EXCEPT !.logins = 1, !.routes = {"native", "safari"},
                      !.transitions = TRUE],
     [SafariHost EXCEPT !.window = FALSE],
     [SafariHost EXCEPT !.transitions = TRUE],
     [SafariHost EXCEPT !.logins = 1, !.redelivery = TRUE]}

\* All of them.
LoginSettings == UNION {BubbleSettings, ReturnSettings, OverlapSettings}

UserSwitchSettings == {[Plain EXCEPT !.users = {u1, u2}]}

UserSymmetry == Permutations({u1, u2})
=============================================================================
