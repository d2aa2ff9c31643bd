------------------------------- MODULE Shell -------------------------------
(***************************************************************************)
(* The pages of the application around the push channel of Realtime: the   *)
(* Welcome page, which checks the health of a server on a thread of its    *)
(* own, the start of the services once a server has answered, the Login    *)
(* and Register pages and the Session menu.                                *)
(*                                                                         *)
(* The menu is there on every page and in every state, and a login is only *)
(* submitted from its page.  The specification of the push channel alone   *)
(* lets a session begin at any time; here one begins where the user can    *)
(* begin it, and the behaviours are some of Realtime's.                    *)
(***************************************************************************)
EXTENDS Realtime

CONSTANTS Url,    \* base URLs that begin with http:// or https://, normalised
          BadUrl, \* any other text of the URL field
          NoUrl   \* no URL: an empty m_selectedBaseUrl, services not initialised

ASSUME UrlAssumption == BadUrl \notin Url /\ NoUrl \notin Url /\ BadUrl # NoUrl

VARIABLES page,     \* the current widget of AppStack
          edit,     \* the text of m_baseUrlEdit, normalised
          checking, \* the URL whose health check runs, NoUrl when none does
          offered,  \* m_selectedBaseUrl; Login and Register are enabled with it
          server,   \* the URL the services were initialised with
          healthy   \* history: the URLs a health check has answered for

shell     == <<page, edit, checking, offered, server, healthy>>
shellVars == <<vars, shell>>

\* The field holds the URL of the environment, or the one remembered.
ShellInit == /\ Init
             /\ page = "welcome"
             /\ edit \in Url \cup {BadUrl}
             /\ checking = NoUrl /\ offered = NoUrl /\ server = NoUrl
             /\ healthy = {}

(***************************************************************************)
(* The Welcome page                                                        *)
(***************************************************************************)

\* Mutant: the field stays enabled while a check runs.
TypeAnyTime(text) == /\ page = "welcome"
                     /\ edit' = text
                     /\ UNCHANGED <<vars, page, checking, offered, server, healthy>>

\* The field is disabled while a check runs.
TypeUrl(text) == /\ page = "welcome" /\ checking = NoUrl
                 /\ edit' = text
                 /\ UNCHANGED <<vars, page, checking, offered, server, healthy>>

\* onConnectClicked: a check begins, or the text is refused with an error.
ConnectClicked ==
  /\ page = "welcome" /\ checking = NoUrl
  /\ IF edit \in Url THEN checking' = edit /\ UNCHANGED offered
                     ELSE offered' = NoUrl /\ UNCHANGED checking
  /\ UNCHANGED <<vars, page, edit, server, healthy>>

\* setStatusError: the two buttons are disabled with the selection.
HealthFails == /\ checking # NoUrl
               /\ checking' = NoUrl
               /\ offered' = NoUrl
               /\ UNCHANGED <<vars, page, edit, server, healthy>>

\* A session begins, on the main page.
EnterMain == Enter /\ page' = "main"

\* serverBaseUrlReady when there are no services yet: they fail to start, or
\* they start and the last session is restored, or cannot be.  A restore that
\* fails may have set a context first.
StartServices == \/ UNCHANGED <<vars, page, server>>
                 \/ server' = edit /\ EnterMain
                 \/ server' = edit /\ page' = "welcome" /\ (UNCHANGED vars \/ EnterFails)

\* onHealthFinished takes the URL from the field again; with services running
\* serverBaseUrlReady does nothing.
HealthAnswers == /\ checking # NoUrl
                 /\ checking' = NoUrl
                 /\ offered' = edit
                 /\ healthy' = healthy \cup {checking}
                 /\ IF server = NoUrl THEN StartServices ELSE UNCHANGED <<vars, page, server>>
                 /\ UNCHANGED edit

(***************************************************************************)
(* The other pages and the menu                                            *)
(***************************************************************************)

Show(next) == page' = next /\ UNCHANGED <<vars, edit, checking, offered, server, healthy>>

\* The menu's Show Welcome and Show Main.
MenuShows(next) == next \in {"welcome", "main"} /\ Show(next)

\* The buttons Login and Register of the Welcome page.
FormRequested(form) == /\ page = "welcome" /\ offered # NoUrl
                       /\ form \in {"login", "register"} /\ Show(form)

BackRequested == page \in {"login", "register"} /\ Show("welcome")

\* Mutant: the push channel is started for a login that was refused as well.
SubmitConnects == /\ page \in {"login", "register"} /\ server # NoUrl
                  /\ \/ EnterMain
                     \/ /\ tokens' = tokens
                        /\ ConnectAndAuthenticate(tokens)
                        /\ UNCHANGED <<session, accepted, up, timer, attempt, poll, page>>
                  /\ UNCHANGED <<edit, checking, offered, server, healthy>>

\* loginSubmitted and registerSubmitted, which nothing receives before the
\* services run: the session begins, or a warning leaves everything as it is,
\* except the context of a call that failed late.
Submit == /\ page \in {"login", "register"} /\ server # NoUrl
          /\ EnterMain \/ (EnterFails /\ UNCHANGED page)
          /\ UNCHANGED <<edit, checking, offered, server, healthy>>

\* logoutRequested, out of a session too: the server only hears of one that is.
LogoutRequested(revoked) == /\ revoked => session # 0
                            /\ Logout(revoked)
                            /\ page' = "welcome"
                            /\ UNCHANGED <<edit, checking, offered, server, healthy>>

\* The push channel by itself.
ChannelStep == /\ \/ Connected
                  \/ ConnectFails
                  \/ \E error \in BOOLEAN : Disconnected(error)
                  \/ TimerFires
                  \/ \E token \in 1..MaxSession : Expire(token)
                  \/ ServerGoesOrComes
               /\ UNCHANGED shell

ShellNext == \/ \E text \in Url \cup {BadUrl} : TypeUrl(text)
             \/ ConnectClicked
             \/ HealthFails
             \/ HealthAnswers
             \/ \E next \in {"welcome", "main"} : MenuShows(next)
             \/ \E form \in {"login", "register"} : FormRequested(form)
             \/ BackRequested
             \/ Submit
             \/ \E revoked \in BOOLEAN : LogoutRequested(revoked)
             \/ ChannelStep

\* Nothing is assumed of the user, nor that a health check ends.
ShellSpec == ShellInit /\ [][ShellNext]_shellVars /\ Fairness

(***************************************************************************)
(* Properties                                                              *)
(***************************************************************************)

\* The type invariant.
ShellTypeOK == /\ page \in {"welcome", "login", "register", "main"}
               /\ edit \in Url \cup {BadUrl}
               /\ {checking, offered, server} \subseteq Url \cup {NoUrl}
               /\ healthy \subseteq Url

\* Credentials and tokens go to a server the user has connected to and whose
\* health check has answered, although the URL is read from the field again
\* when the check ends, on whatever page the user is by then: such a server is
\* offered for the login, the services talk to such a server, and there is no
\* session and no push connection before they do.
OnlyCheckedServers == /\ {offered, server} \ {NoUrl} \subseteq healthy
                      /\ bearer # 0 => server # NoUrl

\* WelcomePage.cpp reports "Connected" when a server has answered: that is then
\* the server of the services, to which the credentials go.
ConnectedServerIsUsed == offered # NoUrl /\ server # NoUrl => offered = server
=============================================================================
