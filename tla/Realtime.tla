------------------------------ MODULE Realtime ------------------------------
(***************************************************************************)
(* The push channel of a session: RealtimeSocket with its reconnect timer, *)
(* the session handlers of Application.cpp that open and close it, and the *)
(* poll timer they fall back to.  All of it runs on the UI thread, which   *)
(* waits for the calls of AuthService, so a handler is one step.           *)
(*                                                                         *)
(* The QWebSocket, the network and the server are external:                *)
(*   - open() drops the connection there was without a signal;             *)
(*   - a connection that fails to open signals an error, then disconnected;*)
(*   - a connection that ends signals disconnected, with or without an     *)
(*     error before it; after close() this may come at once or later.      *)
(***************************************************************************)
EXTENDS Naturals

CONSTANT MaxSession  \* bound: sessions ever entered, each with its own access token

ASSUME MaxSessionAssumption == MaxSession \in Nat

MaxAttempt == 6      \* the attempt from which the delay no longer grows

VARIABLES session,   \* the access token of the session the UI is in, 0 when in none
          tokens,    \* access tokens handed out so far
          accepted,  \* the ones the server still accepts
          up,        \* whether the server can be reached
          bearer,    \* m_accessToken, 0 before the first connection (m_url is not valid)
          link,      \* the QWebSocket: "none", "connecting", "open" or "closing"
          timer,     \* m_reconnectTimer is running
          attempt,   \* min(m_reconnectAttempt, 6), all that the delay depends on
          poll       \* poll_timer is running

socket == <<bearer, link, timer, attempt, poll>>
world  == <<tokens, accepted, up>>
vars   == <<session, world, socket>>

Init == /\ session = 0 /\ tokens = 0 /\ accepted = {}
        /\ up \in BOOLEAN
        /\ bearer = 0 /\ link = "none"
        /\ timer = FALSE /\ attempt = 0
        /\ poll = FALSE

(***************************************************************************)
(* RealtimeSocket                                                          *)
(***************************************************************************)

\* Mutant: a socket that is open keeps its token.
ConnectIfClosed(token) ==
  IF link = "open" THEN UNCHANGED <<bearer, link>>
                   ELSE bearer' = token /\ link' = "connecting"

ConnectAndAuthenticate(token) == bearer' = token /\ link' = "connecting"

\* Mutant: the attempt is not capped before it is used for the delay.
Uncapped(n) == n

Capped(n) == IF n < MaxAttempt THEN n ELSE MaxAttempt

\* Mutant: no further attempt after the last delay.
GiveUpReconnecting == /\ timer' = (attempt < MaxAttempt)
                      /\ attempt' = Capped(attempt + 1)

ScheduleReconnect == /\ timer' = TRUE
                     /\ attempt' = Capped(attempt + 1)

\* Mutant: only losing an open connection starts the poll timer.
PollOnLoss == poll' = (poll \/ link = "open")

\* socketError: the poll timer is started, in a session or not.
SocketError == poll' = TRUE

Connected == /\ link = "connecting" /\ up /\ bearer \in accepted
             /\ link' = "open"
             /\ attempt' = 0
             /\ UNCHANGED <<session, world, bearer, timer, poll>>

\* The server is away, or turns the token down.
ConnectFails == /\ link = "connecting" /\ (~up \/ bearer \notin accepted)
                /\ link' = "none"
                /\ SocketError
                /\ ScheduleReconnect
                /\ UNCHANGED <<session, world, bearer>>

\* An open connection is lost, or the one that was being closed has closed.
Disconnected(error) == /\ link \in {"open", "closing"}
                       /\ link' = "none"
                       /\ IF error THEN SocketError ELSE UNCHANGED poll
                       /\ ScheduleReconnect
                       /\ UNCHANGED <<session, world, bearer>>

TimerFires == /\ timer
              /\ timer' = FALSE
              /\ bearer # 0
              /\ ConnectAndAuthenticate(bearer)
              /\ UNCHANGED <<session, world, attempt, poll>>

\* RealtimeSocket::close: the timer is stopped first; a disconnected that
\* comes at once starts it again.
Close == \/ link = "none" /\ timer' = FALSE /\ UNCHANGED <<link, attempt>>
         \/ link # "none" /\ link' = "closing" /\ timer' = FALSE /\ UNCHANGED attempt
         \/ link # "none" /\ link' = "none" /\ ScheduleReconnect

(***************************************************************************)
(* The session handlers                                                    *)
(***************************************************************************)

\* A login, registration or restore that answered true.  The Session menu
\* leads to the login form in a session as well.
Enter == /\ tokens < MaxSession
         /\ tokens' = tokens + 1
         /\ accepted' = accepted \cup {tokens + 1}
         /\ session' = tokens + 1
         /\ ConnectAndAuthenticate(tokens + 1)
         /\ UNCHANGED <<up, timer, attempt, poll>>

\* A login that failed after it had replaced the context.
EnterFails == /\ tokens < MaxSession
              /\ tokens' = tokens + 1
              /\ accepted' = accepted \cup {tokens + 1}
              /\ session' = 0
              /\ UNCHANGED <<up, socket>>

\* The menu offers logout always; the server may not hear of it.
Logout(revoked) ==
  /\ session' = 0
  /\ accepted' = IF revoked THEN accepted \ {session} ELSE accepted
  /\ Close
  /\ poll' = FALSE
  /\ UNCHANGED <<tokens, up, bearer>>

(***************************************************************************)
(* The world                                                               *)
(***************************************************************************)

\* An access token expires; nothing in a session renews it.
Expire(token) == /\ token \in accepted
                 /\ accepted' = accepted \ {token}
                 /\ UNCHANGED <<session, tokens, up, socket>>

ServerGoesOrComes == /\ up' = ~up
                     /\ UNCHANGED <<session, tokens, accepted, socket>>

Next == \/ Connected
        \/ ConnectFails
        \/ \E error \in BOOLEAN : Disconnected(error)
        \/ TimerFires
        \/ Enter
        \/ EnterFails
        \/ \E revoked \in BOOLEAN : Logout(revoked)
        \/ \E token \in 1..MaxSession : Expire(token)
        \/ ServerGoesOrComes

\* The event loop delivers what is due, and every attempt to connect ends.
\* Nothing is assumed of the user, the server or a connection that is open.
Fairness == WF_vars(Connected \/ ConnectFails) /\ WF_vars(TimerFires)

Spec == Init /\ [][Next]_vars /\ Fairness

(***************************************************************************)
(* Properties                                                              *)
(***************************************************************************)

\* The type invariant.
TypeOK == /\ session \in 0..MaxSession /\ tokens \in 0..MaxSession
          /\ accepted \subseteq 1..MaxSession
          /\ up \in BOOLEAN
          /\ bearer \in 0..MaxSession
          /\ link \in {"none", "connecting", "open", "closing"}
          /\ timer \in BOOLEAN /\ attempt \in 0..MaxAttempt
          /\ poll \in BOOLEAN

\* In a session the socket, and every reconnection it will make, carries the
\* token of that session, whatever connections, timers and closing handshakes
\* the sessions before it have left behind.
SocketIsTheSessions == session # 0 => bearer = session /\ link # "closing"

\* In a session the connection is never given up: it is open, on its way, or
\* the reconnect timer is running.
NeverStranded == session # 0 => link \in {"connecting", "open"} \/ timer

\* If in the end the session stays, its token is accepted and the server can
\* be reached, then the push channel is there again and again.
Reconnects ==
  <>[](session # 0 /\ up /\ session \in accepted) => []<>(link = "open")

\* A session whose push channel never opens again ends up polling.
FallsBackToPolling == <>[](session # 0 /\ link # "open") => <>[]poll
=============================================================================
