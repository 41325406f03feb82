------------------------------ MODULE McpClient ------------------------------
(***************************************************************************)
(* The MCP client of packages/core/src/mcp-client.ts: one McpClient, whose *)
(* calls, for several credentials, share one verdict on the server's era   *)
(* and, with a legacy server, one session per credential.                  *)
(*                                                                         *)
(* The server and the network are external: a request is answered, or      *)
(* fails, in one step, and the server may forget a session at any time.    *)
(* What an answer says is reduced to how the client classifies it.         *)
(***************************************************************************)
EXTENDS Integers, Sequences, FiniteSets

CONSTANTS
    Calls,          \* calls of request()
    Credentials,    \* the headers they resolve, as credentialKey() tells them apart
    CredentialOf,   \* whose credential a call carries
    Discovery,      \* the credential of the client's own headers
    Servers,        \* the servers to consider: "modern", "legacy", "dual"
    MaxSessions,    \* MAX_LEGACY_SESSIONS
    MaxReissues,    \* MAX_STREAM_REISSUES
    MaxRounds,      \* MAX_INPUT_REQUIRED_ROUNDS
    MaxFaults,      \* bound: answers that are not what was asked for
    MaxExpired      \* bound: sessions the server forgets

ASSUME McpClientAssumption ==
    /\ CredentialOf \in [Calls -> Credentials] /\ Discovery \in Credentials
    /\ Servers \subseteq {"modern", "legacy", "dual"}
    /\ MaxSessions \in Nat \ {0} /\ MaxReissues \in Nat /\ MaxRounds \in Nat \ {0}
    /\ MaxFaults \in Nat /\ MaxExpired \in Nat

VARIABLES
    server,         \* what the server speaks; never changes
    known,          \* the sessions it knows, by the number of their handshake
    ran,            \* how often it has carried out each call
    era, connecting,    \* the verdict; the probe that calls without one share
    sessions,       \* the map from credentials to handshakes: pairs [key, shake]
    handshakes,     \* every handshake begun, in order
    calls,          \* where each call stands
    blame,          \* per credential, what made another handshake necessary
    used            \* what the bounds count

world  == <<server, known, ran>>
client == <<era, connecting, sessions, handshakes>>
vars == <<world, client, calls, blame, used>>

Idle == [stage |-> "idle", shake |-> 0, mayRestart |-> TRUE, attempt |-> 0, round |-> 1]

Fault == used.faults < MaxFaults /\ used' = [used EXCEPT !.faults = @ + 1]

\* A call goes to a stage, awaits a handshake, starts over or is sent once more.
Moves(c, stage) == calls' = [calls EXCEPT ![c] = [@ EXCEPT !.stage = stage]]
Awaits(c, shake) == calls' = [calls EXCEPT ![c] = [@ EXCEPT !.stage = "awaiting", !.shake = shake]]
Restarts(c) == calls' = [calls EXCEPT ![c] = [@ EXCEPT !.stage = "ready", !.mayRestart = FALSE]]
Retries(c, attempt, round) ==
    calls' = [calls EXCEPT ![c] = [@ EXCEPT !.attempt = attempt, !.round = round]]

\* A handshake goes to a stage.
Shakes(h, stage) == handshakes' = [handshakes EXCEPT ![h] = [@ EXCEPT !.stage = stage]]

\* Mutant: the client has one session.
AnySession(key) == IF sessions = {} THEN 0 ELSE (CHOOSE e \in sessions : TRUE).shake

\* The handshake the map holds for a credential; 0 for none.
Remembered(key) ==
    IF \E e \in sessions : e.key = key THEN (CHOOSE e \in sessions : e.key = key).shake ELSE 0

Forgetting(shake) == {e \in sessions : e.shake # shake}

\* Keys keep the order in which they were inserted, that of their handshakes.
Oldest == CHOOSE e \in sessions : \A f \in sessions : e.shake <= f.shake
-----------------------------------------------------------------------------
Init ==
    /\ server \in Servers /\ known = {} /\ ran = [c \in Calls |-> 0]
    /\ era = "unknown" /\ connecting = "no" /\ sessions = {} /\ handshakes = << >>
    /\ calls = [c \in Calls |-> Idle]
    /\ blame = [k \in Credentials |-> 0]
    /\ used = [faults |-> 0, expired |-> 0]

\* handshake(), up to its first await, and remember(): the oldest makes room.
Begin(key) ==
    /\ handshakes' = Append(handshakes, [key |-> key, stage |-> "initialize"])
    /\ LET entry == [key |-> key, shake |-> Len(handshakes')]
           full == Cardinality(sessions) >= MaxSessions IN
       /\ sessions' = {entry} \cup IF full THEN sessions \ {Oldest} ELSE sessions
       /\ blame' = IF full THEN [blame EXCEPT ![Oldest.key] = @ + 1] ELSE blame

\* request(): the verdict, if there is one, or the probe, which is begun or joined.
Request(c) ==
    /\ calls[c].stage = "idle"
    /\ IF era # "unknown"
       THEN Moves(c, "ready") /\ UNCHANGED connecting
       ELSE /\ Moves(c, "connecting")
            /\ connecting' = IF connecting = "no" THEN "discover" ELSE connecting
    /\ UNCHANGED <<world, era, sessions, handshakes, blame, used>>

\* The probe is over, and so is every call that waited for it, or its wait.
Connected(stage) ==
    /\ connecting' = "no"
    /\ calls' = [c \in Calls |-> IF calls[c].stage = "connecting"
                                 THEN [calls[c] EXCEPT !.stage = stage] ELSE calls[c]]

Discovering == connecting \in {"discover", "again"}

\* server/discover is answered by a server that speaks it.
Discovered ==
    /\ Discovering /\ server # "legacy"
    /\ era' = "modern" /\ Connected("ready")
    /\ UNCHANGED <<world, sessions, handshakes, blame, used>>

\* It rejects the request although it lists the version: once more, and no more.
Rejected ==
    /\ Discovering /\ server # "legacy"
    /\ \/ connecting = "discover" /\ Fault /\ connecting' = "again" /\ UNCHANGED calls
       \/ connecting = "again" /\ UNCHANGED used /\ Connected("failed")
    /\ UNCHANGED <<world, era, sessions, handshakes, blame>>

\* It is refused with 401, 403 or 5xx, the network fails, or the versions do not meet.
Refused ==
    /\ Discovering /\ Fault
    /\ Connected("failed")
    /\ UNCHANGED <<world, era, sessions, handshakes, blame>>

\* The answer is what a legacy server plausibly gives, and a proxy might: the handshake
\* of the discovery credential will tell.
TryLegacy ==
    /\ Discovering
    /\ \/ server = "legacy" /\ UNCHANGED used
       \/ Fault
    /\ connecting' = "shake"
    /\ Begin(Discovery)
    /\ UNCHANGED <<world, era, calls>>

\* initialize and notifications/initialized, each answered by a server that knows them.
Shake(h) ==
    /\ server # "modern"
    /\ \/ /\ handshakes[h].stage = "initialize"
          /\ Shakes(h, "initialized")
          /\ known' = known \cup {h}
       \/ /\ handshakes[h].stage = "initialized" /\ h \in known
          /\ Shakes(h, "open")
          /\ UNCHANGED known
    /\ UNCHANGED <<server, ran, era, connecting, sessions, calls, blame, used>>

\* Either is refused or lost: the promise rejects, and its entry goes if it is still it.
ShakeFails(h) ==
    /\ handshakes[h].stage \in {"initialize", "initialized"}
    /\ \/ server = "modern" /\ UNCHANGED used
       \/ handshakes[h].stage = "initialized" /\ h \notin known /\ UNCHANGED used
       \/ Fault
    /\ Shakes(h, "failed")
    /\ sessions' = Forgetting(h)
    /\ blame' = [blame EXCEPT ![handshakes[h].key] = @ + 1]
    /\ UNCHANGED <<world, era, connecting, calls>>

\* The handshake the probe awaits: nobody begins another before the verdict.
ProbeShake == Len(handshakes)

\* The verdict of the handshake.
Settled ==
    /\ connecting = "shake"
    /\ \/ handshakes[ProbeShake].stage = "open" /\ era' = "legacy" /\ Connected("ready")
       \/ handshakes[ProbeShake].stage = "failed" /\ UNCHANGED era /\ Connected("failed")
    /\ UNCHANGED <<world, sessions, handshakes, blame, used>>
-----------------------------------------------------------------------------
(* A call of the legacy era.                                               *)

\* legacyRequest(): the session of the credential, or a handshake for one.
Enter(c) ==
    LET key == CredentialOf[c] IN
    /\ calls[c].stage = "ready" /\ era = "legacy"
    /\ IF Remembered(key) # 0
       THEN /\ Awaits(c, Remembered(key))
            /\ UNCHANGED <<sessions, handshakes, blame>>
       ELSE /\ Begin(key)
            /\ Awaits(c, Len(handshakes'))
    /\ UNCHANGED <<world, era, connecting, used>>

\* The session is there and the request posted, or the handshake failed.
Post(c) ==
    /\ calls[c].stage = "awaiting"
    /\ \/ /\ handshakes[calls[c].shake].stage = "open"
          /\ Moves(c, "posted")
       \/ /\ handshakes[calls[c].shake].stage = "failed"
          /\ Moves(c, "failed")
    /\ UNCHANGED <<world, client, blame, used>>

\* Mutant: an answer that is lost is asked for again.
ReplyAgain(c) ==
    /\ calls[c].stage = "posted" /\ calls[c].shake \in known
    /\ ran' = [ran EXCEPT ![c] = @ + 1]
    /\ \/ Moves(c, "done") /\ UNCHANGED used
       \/ Moves(c, "ready") /\ Fault
    /\ UNCHANGED <<server, known, client, blame>>

\* The server carries the call out; its answer may still be lost.
Reply(c) ==
    /\ calls[c].stage = "posted" /\ calls[c].shake \in known
    /\ ran' = [ran EXCEPT ![c] = @ + 1]
    /\ \/ Moves(c, "done") /\ UNCHANGED used
       \/ Moves(c, "failed") /\ Fault
    /\ UNCHANGED <<server, known, client, blame>>

\* Mutant: the credential's session is forgotten, whichever it is by now.
GoneForgetsRenewed(c) ==
    /\ calls[c].stage = "posted" /\ calls[c].shake \notin known
    /\ IF calls[c].mayRestart
       THEN /\ sessions' = {e \in sessions : e.key # CredentialOf[c]}
            /\ Restarts(c)
       ELSE /\ Moves(c, "failed")
            /\ UNCHANGED sessions
    /\ UNCHANGED <<world, era, connecting, handshakes, blame, used>>

\* 404: the session is forgotten if it is still the credential's, and the call made
\* again, once.
Gone(c) ==
    /\ calls[c].stage = "posted" /\ calls[c].shake \notin known
    /\ IF calls[c].mayRestart
       THEN /\ sessions' = Forgetting(calls[c].shake)
            /\ Restarts(c)
       ELSE /\ Moves(c, "failed")
            /\ UNCHANGED sessions
    /\ UNCHANGED <<world, era, connecting, handshakes, blame, used>>

\* The network fails, or the server does.
Lost(c) ==
    /\ calls[c].stage = "posted" /\ Fault
    /\ Moves(c, "failed")
    /\ UNCHANGED <<world, client, blame>>
-----------------------------------------------------------------------------
(* A call of the modern era.                                               *)

Send(c) ==
    /\ calls[c].stage = "ready" /\ era = "modern"
    /\ Moves(c, "sent")
    /\ UNCHANGED <<world, client, blame, used>>

\* The result, complete or of a kind the client has no use for.
Complete(c) ==
    /\ calls[c].stage = "sent"
    /\ ran' = [ran EXCEPT ![c] = @ + 1]
    /\ \E stage \in {"done", "failed"} : Moves(c, stage)
    /\ UNCHANGED <<server, known, client, blame, used>>

\* Mutant: a broken stream is re-issued every time.
BrokenAlways(c) ==
    /\ calls[c].stage = "sent"
    /\ Retries(c, 1 - calls[c].attempt, calls[c].round)
    /\ UNCHANGED <<world, client, blame, used>>

\* The response stream breaks, whether or not the server had carried the call out.
Broken(c) ==
    /\ calls[c].stage = "sent"
    /\ IF calls[c].attempt < MaxReissues THEN Retries(c, calls[c].attempt + 1, calls[c].round)
                                         ELSE Moves(c, "failed")
    /\ \E n \in {0, 1} : ran' = [ran EXCEPT ![c] = @ + n]
    /\ UNCHANGED <<server, known, client, blame, used>>

\* input_required with a state to echo: the round begins anew.
InputRequired(c) ==
    /\ calls[c].stage = "sent"
    /\ IF calls[c].round < MaxRounds THEN Retries(c, 0, calls[c].round + 1)
                                     ELSE Moves(c, "failed")
    /\ UNCHANGED <<world, client, blame, used>>
-----------------------------------------------------------------------------
\* The server forgets a session.
Expire(h) ==
    /\ h \in known /\ used.expired < MaxExpired /\ used' = [used EXCEPT !.expired = @ + 1]
    /\ known' = known \ {h}
    /\ blame' = [blame EXCEPT ![handshakes[h].key] = @ + 1]
    /\ UNCHANGED <<server, ran, client, calls>>

Returned == \A c \in Calls : calls[c].stage \in {"done", "failed"}
Rest == Returned /\ UNCHANGED vars

Probe == Discovered \/ Rejected \/ Refused \/ TryLegacy \/ Settled
Shaking == \E h \in DOMAIN handshakes : Shake(h) \/ ShakeFails(h)
Legacy(c) == Enter(c) \/ Post(c) \/ Reply(c) \/ Gone(c) \/ Lost(c)
Modern(c) == Send(c) \/ Complete(c) \/ Broken(c) \/ InputRequired(c)

Next ==
    \/ Probe \/ Shaking \/ Rest
    \/ \E c \in Calls : Request(c) \/ Legacy(c) \/ Modern(c)
    \/ \E h \in known : Expire(h)

Spec == Init /\ [][Next]_vars

\* What is asked is answered, or fails, and what awaits an answer goes on.
FairSpec ==
    /\ Spec /\ WF_vars(Probe) /\ WF_vars(Shaking)
    /\ \A c \in Calls : WF_vars(Legacy(c) \/ Modern(c))
-----------------------------------------------------------------------------
(* Properties.                                                             *)

\* Every variable holds a value of its type.
TypeOK ==
    /\ server \in Servers /\ known \subseteq DOMAIN handshakes /\ ran \in [Calls -> Nat]
    /\ era \in {"unknown", "modern", "legacy"}
    /\ connecting \in {"no", "discover", "again", "shake"}
    /\ sessions \subseteq [key : Credentials, shake : DOMAIN handshakes]
    /\ handshakes \in Seq([key : Credentials,
                           stage : {"initialize", "initialized", "open", "failed"}])
    /\ calls \in [Calls -> [stage : {"idle", "connecting", "ready", "awaiting", "posted", "sent",
                                     "done", "failed"},
                            shake : Nat, mayRestart : BOOLEAN, attempt : Nat, round : Nat]]
    /\ blame \in [Credentials -> Nat]
    /\ used \in [faults : Nat, expired : Nat]

\* A call never rides on the session another credential opened, whatever expired, was
\* dropped or is still being opened (mcp-client.ts:75).
OwnSession ==
    \A c \in Calls : calls[c].stage \in {"awaiting", "posted"} =>
        /\ calls[c].shake \in DOMAIN handshakes
        /\ handshakes[calls[c].shake].key = CredentialOf[c]

\* Callers share handshakes: a credential begins another only when a session of it
\* expired, failed to open or was dropped for room, once for each such event, however
\* many calls meet its 404 and in whatever order (mcp-client.ts:236-251).
NoStorm ==
    \A k \in Credentials :
        Cardinality({h \in DOMAIN handshakes : handshakes[h].key = k}) <= 1 + blame[k]

\* The verdict fits the server: neither a fault nor a strange answer makes a legacy
\* server of one that is not.
RightEra == (era = "legacy" => server # "modern") /\ (era = "modern" => server # "legacy")

\* With a legacy server a call is carried out at most once although it may be made
\* twice; what has been answered was carried out.
RunsOnce ==
    \A c \in Calls : /\ era = "legacy" => ran[c] <= 1
                     /\ calls[c].stage = "done" => ran[c] >= 1

\* A failed handshake is nobody's session: the next call of the credential tries again.
NotPoisoned == \A e \in sessions : handshakes[e.shake].stage # "failed"

\* Liveness: a call that is made returns, however often it is made again.
CallsReturn == \A c \in Calls : calls[c].stage # "idle" ~> calls[c].stage \in {"done", "failed"}
=============================================================================
