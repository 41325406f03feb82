---------------------------- MODULE McpClientProofs ----------------------------
(***************************************************************************)
(* What holds of the MCP client for every value of the constants: any      *)
(* number of calls and credentials, any number of faults and expirations.  *)
(***************************************************************************)
EXTENDS McpClient, FiniteSetTheorems, TLAPS

CallStages == {"idle", "connecting", "ready", "awaiting", "posted", "sent", "done", "failed"}
CallRec == [stage : CallStages, shake : Nat, mayRestart : BOOLEAN, attempt : Nat, round : Nat]
ShakeStages == {"initialize", "initialized", "open", "failed"}
ShakeRec == [key : Credentials, stage : ShakeStages]

-----------------------------------------------------------------------------
(* What the updates of a call and of a handshake do.                       *)

LEMMA CallUpdate ==
    ASSUME calls \in [Calls -> CallRec], NEW c \in Calls, NEW r \in CallRec,
           calls' = [calls EXCEPT ![c] = r]
    PROVE  /\ calls' \in [Calls -> CallRec] /\ calls'[c] = r
           /\ \A d \in Calls \ {c} : calls'[d] = calls[d]
  OBVIOUS

LEMMA MovesDoes ==
    ASSUME calls \in [Calls -> CallRec], NEW c \in Calls, NEW stage \in CallStages, Moves(c, stage)
    PROVE  /\ calls' \in [Calls -> CallRec] /\ calls'[c].stage = stage /\ calls'[c].shake = calls[c].shake
           /\ \A d \in Calls \ {c} : calls'[d] = calls[d]
<1>1. PICK r : r = [calls[c] EXCEPT !.stage = stage]
  OBVIOUS
<1>2. r \in CallRec /\ r.stage = stage /\ r.shake = calls[c].shake
  BY <1>1 DEF CallRec
<1>3. calls' = [calls EXCEPT ![c] = r]
  BY <1>1 DEF Moves
<1> QED
  BY <1>2, <1>3, CallUpdate

LEMMA AwaitsDoes ==
    ASSUME calls \in [Calls -> CallRec], NEW c \in Calls, NEW shake \in Nat, Awaits(c, shake)
    PROVE  /\ calls' \in [Calls -> CallRec] /\ calls'[c].stage = "awaiting" /\ calls'[c].shake = shake
           /\ \A d \in Calls \ {c} : calls'[d] = calls[d]
<1>1. PICK a : a = [calls[c] EXCEPT !.stage = "awaiting"]
  OBVIOUS
<1>2. a \in CallRec /\ a.stage = "awaiting"
  BY <1>1 DEF CallRec, CallStages
<1>3. PICK r : r = [a EXCEPT !.shake = shake]
  OBVIOUS
<1>4. r \in CallRec /\ r.stage = "awaiting" /\ r.shake = shake
  BY <1>2, <1>3 DEF CallRec
<1>5. calls' = [calls EXCEPT ![c] = r]
  BY <1>1, <1>3 DEF Awaits
<1> QED
  BY <1>4, <1>5, CallUpdate

LEMMA RestartsDoes ==
    ASSUME calls \in [Calls -> CallRec], NEW c \in Calls, Restarts(c)
    PROVE  /\ calls' \in [Calls -> CallRec] /\ calls'[c].stage = "ready"
           /\ \A d \in Calls \ {c} : calls'[d] = calls[d]
<1>1. PICK a : a = [calls[c] EXCEPT !.stage = "ready"]
  OBVIOUS
<1>2. a \in CallRec /\ a.stage = "ready"
  BY <1>1 DEF CallRec, CallStages
<1>3. PICK r : r = [a EXCEPT !.mayRestart = FALSE]
  OBVIOUS
<1>4. r \in CallRec /\ r.stage = "ready"
  BY <1>2, <1>3 DEF CallRec
<1>5. calls' = [calls EXCEPT ![c] = r]
  BY <1>1, <1>3 DEF Restarts
<1> QED
  BY <1>4, <1>5, CallUpdate

LEMMA RetriesDoes ==
    ASSUME calls \in [Calls -> CallRec], NEW c \in Calls, NEW attempt \in Nat, NEW round \in Nat,
           Retries(c, attempt, round)
    PROVE  /\ calls' \in [Calls -> CallRec] /\ calls'[c].stage = calls[c].stage
           /\ calls'[c].shake = calls[c].shake
           /\ \A d \in Calls \ {c} : calls'[d] = calls[d]
<1>1. PICK a : a = [calls[c] EXCEPT !.attempt = attempt]
  OBVIOUS
<1>2. a \in CallRec /\ a.stage = calls[c].stage /\ a.shake = calls[c].shake
  BY <1>1 DEF CallRec
<1>3. PICK r : r = [a EXCEPT !.round = round]
  OBVIOUS
<1>4. r \in CallRec /\ r.stage = calls[c].stage /\ r.shake = calls[c].shake
  BY <1>2, <1>3 DEF CallRec
<1>5. calls' = [calls EXCEPT ![c] = r]
  BY <1>1, <1>3 DEF Retries
<1> QED
  BY <1>4, <1>5, CallUpdate

LEMMA ConnectedDoes ==
    ASSUME calls \in [Calls -> CallRec], NEW stage \in {"ready", "failed"}, Connected(stage)
    PROVE  /\ connecting' = "no" /\ calls' \in [Calls -> CallRec]
           /\ \A c \in Calls : /\ calls'[c].shake = calls[c].shake
                               /\ calls'[c].stage = IF calls[c].stage = "connecting" THEN stage
                                                    ELSE calls[c].stage
<1>1. ASSUME NEW c \in Calls
      PROVE  /\ calls'[c] \in CallRec /\ calls'[c].shake = calls[c].shake
             /\ calls'[c].stage = IF calls[c].stage = "connecting" THEN stage ELSE calls[c].stage
  <2>1. PICK r : r = [calls[c] EXCEPT !.stage = stage]
    OBVIOUS
  <2>2. r \in CallRec /\ r.stage = stage /\ r.shake = calls[c].shake
    BY <2>1 DEF CallRec, CallStages
  <2>3. calls'[c] = IF calls[c].stage = "connecting" THEN r ELSE calls[c]
    BY <2>1 DEF Connected
  <2> QED
    BY <2>2, <2>3
<1>2. connecting' = "no" /\ calls' = [c \in Calls |-> calls'[c]]
  BY DEF Connected
<1> QED
  BY <1>1, <1>2

LEMMA ShakesDoes ==
    ASSUME handshakes \in Seq(ShakeRec), NEW h \in DOMAIN handshakes, NEW stage \in ShakeStages,
           Shakes(h, stage)
    PROVE  /\ handshakes' \in Seq(ShakeRec) /\ DOMAIN handshakes' = DOMAIN handshakes
           /\ Len(handshakes') = Len(handshakes)
           /\ handshakes'[h].stage = stage /\ handshakes'[h].key = handshakes[h].key
           /\ \A g \in DOMAIN handshakes : g # h => handshakes'[g] = handshakes[g]
<1>1. PICK r : r = [handshakes[h] EXCEPT !.stage = stage]
  OBVIOUS
<1>2. handshakes[h] \in ShakeRec
  OBVIOUS
<1>3. r \in ShakeRec /\ r.stage = stage /\ r.key = handshakes[h].key
  BY <1>1, <1>2 DEF ShakeRec
<1>4. handshakes' = [handshakes EXCEPT ![h] = r]
  BY <1>1 DEF Shakes
<1> QED
  BY <1>3, <1>4

-----------------------------------------------------------------------------
(* Types.                                                                  *)

\* An entry of the oldest handshake is one of the map's.
LEMMA OldestIsThere ==
    ASSUME NEW S \in SUBSET [key : Credentials, shake : Nat], S # {}
    PROVE  (CHOOSE e \in S : \A f \in S : e.shake <= f.shake) \in S
<1> DEFINE T == {n \in Nat : \E e \in S : e.shake = n}
<1>1. T \subseteq Nat /\ T # {}
  OBVIOUS
<1>2. PICK n \in T : \A m \in T : ~(<<m, n>> \in OpToRel(<, Nat))
  BY <1>1, WFMin, NatLessThanWellFounded
<1>3. \A m \in T : ~(m < n)
  BY <1>2 DEF OpToRel
<1>4. PICK e \in S : e.shake = n
  BY <1>2
<1>5. \A f \in S : e.shake <= f.shake
  BY <1>3, <1>4
<1> QED
  BY <1>5

\* The sessions a credential begins with, and who makes room.
LEMMA BeginMakesRoom ==
    ASSUME TypeOK, NEW key \in Credentials, Begin(key)
    PROVE  \E out \in SUBSET sessions :
              /\ sessions' = {[key |-> key, shake |-> Len(handshakes) + 1]} \cup (sessions \ out)
              /\ \/ out = {} /\ blame' = blame
                 \/ \E e \in sessions : out = {e} /\ blame' = [blame EXCEPT ![e.key] = @ + 1]
<1>1. Len(handshakes') = Len(handshakes) + 1
  BY DEF Begin, TypeOK
<1>2. CASE Cardinality(sessions) >= MaxSessions
  <2>1. sessions # {}
    BY <1>2, FS_EmptySet, McpClientAssumption
  <2>2. sessions \in SUBSET [key : Credentials, shake : Nat]
    BY DEF TypeOK
  <2>3. Oldest \in sessions
    BY <2>1, <2>2, OldestIsThere DEF Oldest
  <2> QED
    BY <1>1, <1>2, <2>3 DEF Begin
<1>3. CASE ~(Cardinality(sessions) >= MaxSessions)
  BY <1>1, <1>3 DEF Begin
<1> QED
  BY <1>2, <1>3

LEMMA BeginType ==
    ASSUME TypeOK, NEW key \in Credentials, Begin(key)
    PROVE  /\ handshakes' \in Seq(ShakeRec) /\ Len(handshakes') = Len(handshakes) + 1
           /\ DOMAIN handshakes' = 1..Len(handshakes) + 1
           /\ handshakes'[Len(handshakes) + 1] = [key |-> key, stage |-> "initialize"]
           /\ \A h \in DOMAIN handshakes : h \in DOMAIN handshakes' /\ handshakes'[h] = handshakes[h]
           /\ sessions' \subseteq [key : Credentials, shake : DOMAIN handshakes']
           /\ blame' \in [Credentials -> Nat]
<1>1. [key |-> key, stage |-> "initialize"] \in ShakeRec /\ handshakes \in Seq(ShakeRec)
  BY DEF ShakeRec, ShakeStages, TypeOK
<1>2. handshakes' = Append(handshakes, [key |-> key, stage |-> "initialize"])
  BY DEF Begin
<1>3. /\ handshakes' \in Seq(ShakeRec) /\ Len(handshakes') = Len(handshakes) + 1
      /\ DOMAIN handshakes' = 1..Len(handshakes) + 1
      /\ handshakes'[Len(handshakes) + 1] = [key |-> key, stage |-> "initialize"]
      /\ \A h \in DOMAIN handshakes : h \in DOMAIN handshakes' /\ handshakes'[h] = handshakes[h]
  BY <1>1, <1>2
<1>4. sessions' \subseteq [key : Credentials, shake : DOMAIN handshakes']
  BY <1>3, BeginMakesRoom DEF TypeOK
<1>5. blame' \in [Credentials -> Nat]
  BY BeginMakesRoom DEF TypeOK
<1> QED
  BY <1>3, <1>4, <1>5

LEMMA TypeInit == Init => TypeOK
<1> SUFFICES ASSUME Init PROVE TypeOK
  OBVIOUS
<1>1. Idle \in CallRec
  BY DEF Idle, CallRec, CallStages
<1> QED
  BY <1>1 DEF Init, TypeOK, CallRec, CallStages

LEMMA TypeNext == TypeOK /\ [Next]_vars => TypeOK'
<1> SUFFICES ASSUME TypeOK, [Next]_vars PROVE TypeOK'
  OBVIOUS
<1> USE DEF world, client
<1>t. calls \in [Calls -> CallRec] /\ handshakes \in Seq(ShakeRec)
  BY DEF TypeOK, CallRec, ShakeRec, CallStages, ShakeStages
<1>f. ASSUME Fault \/ used' = used PROVE used' \in [faults : Nat, expired : Nat]
  BY <1>f DEF Fault, TypeOK
<1>c. ASSUME calls' \in [Calls -> CallRec], connecting' \in {"no", "discover", "again", "shake"},
             era' \in {"unknown", "modern", "legacy"}, Fault \/ used' = used, ran' \in [Calls -> Nat],
             sessions' \subseteq sessions, UNCHANGED <<server, known, handshakes, blame>>
      PROVE  TypeOK'
  BY <1>f, <1>c DEF TypeOK, CallRec, CallStages
<1>1. ASSUME NEW c \in Calls, Request(c) PROVE TypeOK'
  <2>1. calls' \in [Calls -> CallRec]
    BY <1>t, <1>1, MovesDoes DEF Request, CallStages
  <2> QED
    BY <1>c, <1>1, <2>1 DEF Request, TypeOK
<1>2. CASE Discovered
  BY <1>t, <1>c, <1>2, ConnectedDoes DEF Discovered, TypeOK
<1>3. CASE Rejected
  BY <1>t, <1>c, <1>3, ConnectedDoes DEF Rejected, TypeOK
<1>4. CASE Refused
  BY <1>t, <1>c, <1>4, ConnectedDoes DEF Refused, TypeOK
<1>5. CASE TryLegacy
  <2>1. Begin(Discovery) /\ Discovery \in Credentials /\ used' \in [faults : Nat, expired : Nat]
    BY <1>f, <1>5, McpClientAssumption DEF TryLegacy
  <2>2. known' \subseteq DOMAIN handshakes'
    BY <1>5, <2>1, BeginType DEF TryLegacy, TypeOK
  <2> QED
    BY <1>5, <2>1, <2>2, BeginType DEF TryLegacy, TypeOK, ShakeRec, ShakeStages
<1>6. CASE Settled
  <2>1. \E stage \in {"ready", "failed"} : Connected(stage)
    BY <1>6 DEF Settled
  <2> QED
    BY <1>t, <1>c, <1>6, <2>1, ConnectedDoes DEF Settled, TypeOK
<1>7. ASSUME NEW h \in DOMAIN handshakes, Shake(h) PROVE TypeOK'
  <2>1. Shakes(h, "initialized") \/ Shakes(h, "open")
    BY <1>7 DEF Shake
  <2>2. handshakes' \in Seq(ShakeRec) /\ DOMAIN handshakes' = DOMAIN handshakes
    BY <1>t, <2>1, ShakesDoes DEF ShakeStages
  <2> QED
    BY <1>7, <2>2 DEF Shake, TypeOK, ShakeRec, ShakeStages
<1>8. ASSUME NEW h \in DOMAIN handshakes, ShakeFails(h) PROVE TypeOK'
  <2>1. handshakes' \in Seq(ShakeRec) /\ DOMAIN handshakes' = DOMAIN handshakes
    BY <1>t, <1>8, ShakesDoes DEF ShakeFails, ShakeStages
  <2>2. used' \in [faults : Nat, expired : Nat]
    BY <1>f, <1>8 DEF ShakeFails
  <2>3. blame' \in [Credentials -> Nat]
    <3>0. handshakes[h] \in ShakeRec
      BY <1>t
    <3>1. handshakes[h].key \in Credentials
      BY <3>0 DEF ShakeRec
    <3> QED
      BY <1>8, <3>1 DEF ShakeFails, TypeOK
  <2>4. sessions' \subseteq sessions
    BY <1>8 DEF ShakeFails, Forgetting
  <2> QED
    BY <1>8, <2>1, <2>2, <2>3, <2>4 DEF ShakeFails, TypeOK, ShakeRec, ShakeStages
<1>9. ASSUME NEW c \in Calls, Enter(c) PROVE TypeOK'
  <2>1. CredentialOf[c] \in Credentials
    BY McpClientAssumption
  <2>2. CASE Remembered(CredentialOf[c]) # 0
    <3>1. Remembered(CredentialOf[c]) \in Nat
      <4>1. \A e \in sessions : e.shake \in Nat
        BY DEF TypeOK
      <4> QED
        BY <4>1 DEF Remembered
    <3>2. calls' \in [Calls -> CallRec]
      BY <1>t, <1>9, <2>2, <3>1, AwaitsDoes DEF Enter
    <3> QED
      BY <1>c, <1>9, <2>2, <3>2 DEF Enter, TypeOK
  <2>3. CASE Remembered(CredentialOf[c]) = 0
    <3>1. Begin(CredentialOf[c]) /\ Awaits(c, Len(handshakes'))
      BY <1>9, <2>3 DEF Enter
    <3>2. Len(handshakes') \in Nat
      BY <2>1, <3>1, BeginType
    <3>3. calls' \in [Calls -> CallRec]
      BY <1>t, <3>1, <3>2, AwaitsDoes
    <3>4. known' \subseteq DOMAIN handshakes'
      BY <1>9, <2>1, <3>1, BeginType DEF Enter, TypeOK
    <3> QED
      BY <1>9, <2>1, <3>1, <3>3, <3>4, BeginType
      DEF Enter, TypeOK, CallRec, ShakeRec, CallStages, ShakeStages
  <2> QED
    BY <2>2, <2>3
<1>10. ASSUME NEW c \in Calls, Post(c) \/ Reply(c) \/ Lost(c) PROVE TypeOK'
  <2>1. calls' \in [Calls -> CallRec]
    BY <1>t, <1>10, MovesDoes DEF Post, Reply, Lost, CallStages
  <2>2. ran' = ran \/ ran' = [ran EXCEPT ![c] = @ + 1]
    BY <1>10 DEF Post, Reply, Lost
  <2>3. ran' \in [Calls -> Nat]
    <3>1. ran \in [Calls -> Nat]
      BY DEF TypeOK
    <3> QED
      BY <2>2, <3>1
  <2>4. UNCHANGED <<server, known, client, blame>> /\ (Fault \/ used' = used)
    BY <1>10 DEF Post, Reply, Lost
  <2> QED
    BY <1>c, <2>1, <2>3, <2>4 DEF TypeOK
<1>11. ASSUME NEW c \in Calls, Gone(c) PROVE TypeOK'
  <2>1. calls' \in [Calls -> CallRec]
    BY <1>t, <1>11, MovesDoes, RestartsDoes DEF Gone, CallStages
  <2>2. sessions' \subseteq sessions
    BY <1>11 DEF Gone, Forgetting
  <2> QED
    BY <1>c, <1>11, <2>1, <2>2 DEF Gone, TypeOK
<1>12. ASSUME NEW c \in Calls, Send(c) \/ Complete(c) \/ Broken(c) \/ InputRequired(c) PROVE TypeOK'
  <2>0. calls[c].attempt \in Nat /\ calls[c].round \in Nat /\ 0 \in Nat
    BY <1>t DEF CallRec
  <2>1. calls' \in [Calls -> CallRec]
    <3>1. CASE Send(c) \/ Complete(c)
      BY <1>t, <3>1, MovesDoes DEF Send, Complete, CallStages
    <3>2. CASE Broken(c) \/ InputRequired(c)
      BY <1>t, <2>0, <3>2, MovesDoes, RetriesDoes DEF Broken, InputRequired, CallStages
    <3> QED
      BY <1>12, <3>1, <3>2
  <2>2. ran' \in [Calls -> Nat]
    BY <1>12 DEF Send, Complete, Broken, InputRequired, TypeOK
  <2> QED
    BY <1>c, <1>12, <2>1, <2>2 DEF Send, Complete, Broken, InputRequired, TypeOK
<1>13. ASSUME NEW h \in known, Expire(h) PROVE TypeOK'
  <2>0. h \in DOMAIN handshakes
    BY DEF TypeOK
  <2>1a. handshakes[h] \in ShakeRec
    BY <1>t, <2>0
  <2>1. handshakes[h].key \in Credentials
    BY <2>1a DEF ShakeRec
  <2>2. blame' \in [Credentials -> Nat]
    <3>1. blame \in [Credentials -> Nat] /\ blame' = [blame EXCEPT ![handshakes[h].key] = @ + 1]
      BY <1>13 DEF Expire, TypeOK
    <3> QED
      BY <2>1, <3>1
  <2>3. used' \in [faults : Nat, expired : Nat]
    <3>1. /\ used \in [faults : Nat, expired : Nat]
          /\ used' = [used EXCEPT !.expired = @ + 1]
      BY <1>13 DEF Expire, TypeOK
    <3> QED
      BY <3>1
  <2>4. known' \subseteq known
    BY <1>13 DEF Expire
  <2>5. UNCHANGED <<server, ran, client, calls>>
    BY <1>13 DEF Expire
  <2> QED
    BY <2>2, <2>3, <2>4, <2>5 DEF TypeOK, client
<1>14. CASE UNCHANGED vars
  BY <1>14 DEF vars, TypeOK
<1> QED
  BY <1>1, <1>2, <1>3, <1>4, <1>5, <1>6, <1>7, <1>8, <1>9, <1>10, <1>11, <1>12, <1>13, <1>14
  DEF Next, Probe, Shaking, Rest, Legacy, Modern
-----------------------------------------------------------------------------
(* What the calls, the sessions and the verdict say of each other.          *)

Keyed == \A e \in sessions : handshakes[e.shake].key = e.key

\* Only a server that knows handshakes answers one; the probe awaits one it began.
Answered ==
    /\ \A h \in DOMAIN handshakes : handshakes[h].stage \in {"initialized", "open"} => server # "modern"
    /\ connecting = "shake" => Len(handshakes) # 0
    /\ connecting # "no" => era = "unknown"

\* A call is on the road of the verdict, and has run at most as often as that allows.
Road(c) ==
    /\ calls[c].stage \in {"awaiting", "posted"} => era = "legacy"
    /\ calls[c].stage = "sent" => era = "modern"
    /\ era = "unknown" => ran[c] = 0
    /\ era = "legacy" => ran[c] = 0 \/ (ran[c] = 1 /\ calls[c].stage \in {"done", "failed"})
    /\ calls[c].stage = "done" => ran[c] >= 1

McpInv == /\ TypeOK /\ Keyed /\ NotPoisoned /\ OwnSession /\ RightEra /\ Answered
          /\ \A c \in Calls : Road(c)

LEMMA McpInit == Init => McpInv
<1> SUFFICES ASSUME Init PROVE McpInv
  OBVIOUS
<1>1. TypeOK
  BY TypeInit
<1>2. \A c \in Calls : calls[c].stage = "idle" /\ ran[c] = 0
  BY DEF Init, Idle
<1>3. DOMAIN handshakes = {} /\ sessions = {} /\ connecting = "no" /\ era = "unknown"
  BY DEF Init
<1> QED
  BY <1>1, <1>2, <1>3 DEF McpInv, Keyed, NotPoisoned, OwnSession, RightEra, Answered, Road

\* A step of one call's, on the handshakes there are.
LEMMA OneCall ==
    ASSUME McpInv, TypeOK', NEW c \in Calls,
           UNCHANGED <<server, era, handshakes>>, sessions' \subseteq sessions,
           connecting' = connecting \/ era = "unknown",
           \A d \in Calls \ {c} : calls'[d] = calls[d] /\ ran'[d] = ran[d],
           Road(c)',
           calls'[c].stage \in {"awaiting", "posted"} =>
               /\ calls'[c].shake \in DOMAIN handshakes
               /\ handshakes[calls'[c].shake].key = CredentialOf[c],
           connecting' = "shake" => connecting = "shake"
    PROVE  McpInv'
<1>1. Keyed' /\ NotPoisoned'
  BY DEF McpInv, Keyed, NotPoisoned
<1>2. OwnSession'
  BY DEF McpInv, OwnSession
<1>3. RightEra' /\ Answered'
  BY DEF McpInv, RightEra, Answered
<1>4. \A d \in Calls : Road(d)'
  <2>1. ASSUME NEW d \in Calls, d # c PROVE Road(d)'
    <3>1. Road(d) /\ calls'[d] = calls[d] /\ ran'[d] = ran[d] /\ era' = era
      BY <2>1 DEF McpInv
    <3> QED
      BY <3>1 DEF Road
  <2> QED
    BY <2>1
<1> QED
  BY <1>1, <1>2, <1>3, <1>4 DEF McpInv

\* A handshake begins: nothing that rides on another is disturbed.
LEMMA BeginKeeps ==
    ASSUME McpInv, TypeOK', NEW key \in Credentials, Begin(key), server' = server
    PROVE  /\ Keyed' /\ NotPoisoned'
           /\ \A h \in DOMAIN handshakes' :
                 handshakes'[h].stage \in {"initialized", "open"} => server # "modern"
           /\ Len(handshakes') \in DOMAIN handshakes' /\ handshakes'[Len(handshakes')].key = key
           /\ Len(handshakes') # 0
           /\ \A h \in DOMAIN handshakes : h \in DOMAIN handshakes' /\ handshakes'[h] = handshakes[h]
<1> DEFINE n == Len(handshakes) + 1
<1>s. handshakes \in Seq(ShakeRec)
  BY DEF McpInv, TypeOK, ShakeRec, ShakeStages
<1>0. TypeOK /\ Len(handshakes) \in Nat /\ DOMAIN handshakes = 1..Len(handshakes)
  BY <1>s DEF McpInv
<1>1. /\ Len(handshakes') = n /\ DOMAIN handshakes' = 1..n
      /\ handshakes'[n] = [key |-> key, stage |-> "initialize"]
      /\ \A h \in DOMAIN handshakes : h \in DOMAIN handshakes' /\ handshakes'[h] = handshakes[h]
  BY <1>0, BeginType
<1>2. \A h \in DOMAIN handshakes' : h = n \/ h \in DOMAIN handshakes
  BY <1>0, <1>1
<1>3. \A e \in sessions' : e = [key |-> key, shake |-> n] \/ e \in sessions
  BY <1>0, BeginMakesRoom
<1>4. \A e \in sessions : e.shake \in DOMAIN handshakes
  BY <1>0 DEF TypeOK
<1>5. Keyed' /\ NotPoisoned'
  BY <1>1, <1>3, <1>4 DEF McpInv, Keyed, NotPoisoned
<1>6. \A h \in DOMAIN handshakes' :
         handshakes'[h].stage \in {"initialized", "open"} => server # "modern"
  BY <1>1, <1>2 DEF McpInv, Answered
<1>7. n \in 1..n /\ n # 0
  BY <1>0
<1> QED
  BY <1>1, <1>5, <1>6, <1>7

LEMMA McpNext == McpInv /\ [Next]_vars => McpInv'
<1> SUFFICES ASSUME McpInv, [Next]_vars PROVE McpInv'
  OBVIOUS
<1> USE DEF world, client
<1>t. TypeOK /\ TypeOK'
  BY TypeNext DEF McpInv
<1>u. /\ calls \in [Calls -> CallRec] /\ handshakes \in Seq(ShakeRec)
      /\ ran \in [Calls -> Nat]
  BY <1>t DEF TypeOK, CallRec, ShakeRec, CallStages, ShakeStages
<1>r. \A c \in Calls : Road(c) /\ ran[c] \in Nat
  BY <1>u DEF McpInv
<1>o. \A c \in Calls : calls[c].stage \in {"awaiting", "posted"} =>
         calls[c].shake \in DOMAIN handshakes /\ handshakes[calls[c].shake].key = CredentialOf[c]
  BY DEF McpInv, OwnSession
<1>1. ASSUME NEW c \in Calls, Request(c) PROVE McpInv'
  <2>1. \E stage \in {"ready", "connecting"} : Moves(c, stage) /\ calls[c].stage = "idle"
    BY <1>1 DEF Request
  <2>2. /\ calls'[c].stage \in {"ready", "connecting"}
        /\ \A d \in Calls \ {c} : calls'[d] = calls[d]
    BY <1>u, <2>1, MovesDoes DEF CallStages
  <2>3. UNCHANGED <<server, era, handshakes, sessions, ran>>
    BY <1>1 DEF Request
  <2>4. Road(c)'
    BY <1>r, <2>1, <2>2, <2>3 DEF Road
  <2>5. (connecting' = connecting \/ era = "unknown") /\ (connecting' = "shake" => connecting = "shake")
    BY <1>1 DEF Request
  <2> QED
    BY <1>t, <2>2, <2>3, <2>4, <2>5, OneCall
<1>2. ASSUME NEW stage \in {"ready", "failed"}, Connected(stage), era = "unknown",
             era' \in {"unknown", "modern", "legacy"}, RightEra',
             UNCHANGED <<world, sessions, handshakes>>
      PROVE  McpInv'
  <2>1. /\ connecting' = "no"
        /\ \A c \in Calls : /\ calls'[c].shake = calls[c].shake
                             /\ calls'[c].stage = IF calls[c].stage = "connecting" THEN stage
                                                  ELSE calls[c].stage
    BY <1>u, <1>2, ConnectedDoes
  <2>2. \A c \in Calls : Road(c)'
    <3> SUFFICES ASSUME NEW c \in Calls PROVE Road(c)'
      OBVIOUS
    <3>1. /\ calls[c].stage \notin {"awaiting", "posted", "sent", "done"}
          /\ ran[c] = 0 /\ ran'[c] = 0
      BY <1>r, <1>2 DEF Road
    <3>2. calls'[c].stage \notin {"awaiting", "posted", "sent", "done"}
      BY <2>1, <3>1
    <3> QED
      BY <3>1, <3>2 DEF Road
  <2>3. OwnSession'
    BY <2>2, <1>2, <1>r, <2>1 DEF OwnSession, Road
  <2>4. Keyed' /\ NotPoisoned' /\ Answered'
    BY <1>2, <2>1 DEF McpInv, Keyed, NotPoisoned, Answered
  <2> QED
    BY <1>t, <1>2, <2>2, <2>3, <2>4 DEF McpInv
<1>3. CASE Discovered
  BY <1>2, <1>3 DEF Discovered, Discovering, McpInv, Answered, RightEra
<1>4. CASE Refused
  BY <1>2, <1>4 DEF Refused, Discovering, McpInv, Answered, RightEra
<1>5. CASE Settled
  <2>1. era = "unknown" /\ ProbeShake \in DOMAIN handshakes
    BY <1>5, <1>u DEF Settled, McpInv, Answered, ProbeShake
  <2>2. CASE handshakes[ProbeShake].stage = "open" /\ era' = "legacy" /\ Connected("ready")
    BY <1>2, <1>5, <2>1, <2>2 DEF Settled, McpInv, Answered, RightEra
  <2>3. CASE handshakes[ProbeShake].stage = "failed" /\ UNCHANGED era /\ Connected("failed")
    BY <1>2, <1>5, <2>1, <2>3 DEF Settled, McpInv, Answered, RightEra
  <2> QED
    BY <1>5, <2>2, <2>3 DEF Settled
<1>6. CASE Rejected
  <2>1. CASE Connected("failed")
    BY <1>2, <1>6, <2>1 DEF Rejected, Discovering, McpInv, Answered, RightEra
  <2>2. CASE connecting = "discover" /\ connecting' = "again" /\ UNCHANGED calls
    <3>1. UNCHANGED <<world, era, sessions, handshakes, calls>> /\ era = "unknown"
      BY <1>6, <2>2 DEF Rejected, McpInv, Answered
    <3>2. Keyed' /\ NotPoisoned' /\ OwnSession' /\ RightEra' /\ Answered'
      BY <2>2, <3>1 DEF McpInv, Keyed, NotPoisoned, OwnSession, RightEra, Answered
    <3> QED
      BY <1>t, <1>r, <3>1, <3>2 DEF McpInv, Road
  <2> QED
    BY <1>6, <2>1, <2>2 DEF Rejected
<1>7. CASE TryLegacy
  <2>1. Begin(Discovery) /\ Discovery \in Credentials /\ UNCHANGED <<server, ran, era, calls>>
    BY <1>7, McpClientAssumption DEF TryLegacy
  <2>2. connecting' = "shake" /\ era = "unknown"
    BY <1>7 DEF TryLegacy, Discovering, McpInv, Answered
  <2>3. Keyed' /\ NotPoisoned' /\ Answered'
    BY <1>t, <2>1, <2>2, BeginKeeps DEF Answered
  <2>4. OwnSession'
    BY <1>r, <2>1, <2>2 DEF OwnSession, Road
  <2> QED
    BY <1>t, <1>r, <2>1, <2>3, <2>4 DEF McpInv, RightEra, Road
<1>8. ASSUME NEW h \in DOMAIN handshakes, Shake(h) \/ ShakeFails(h) PROVE McpInv'
  <2>1. \E stage \in {"initialized", "open", "failed"} : Shakes(h, stage)
    BY <1>8 DEF Shake, ShakeFails
  <2>2. /\ DOMAIN handshakes' = DOMAIN handshakes /\ Len(handshakes') = Len(handshakes)
        /\ handshakes'[h].key = handshakes[h].key
        /\ \A g \in DOMAIN handshakes : g # h => handshakes'[g] = handshakes[g]
    BY <1>u, <2>1, ShakesDoes DEF ShakeStages
  <2>3. UNCHANGED <<server, ran, era, connecting, calls>> /\ sessions' \subseteq sessions
    BY <1>8 DEF Shake, ShakeFails, Forgetting
  <2>4. \A e \in sessions : e.shake \in DOMAIN handshakes
    BY <1>t DEF TypeOK
  <2>5. Keyed' /\ OwnSession'
    BY <1>o, <2>2, <2>3, <2>4 DEF McpInv, Keyed, OwnSession
  <2>6. NotPoisoned' /\ Answered'
    <3>1. CASE Shake(h)
      <4>1. server # "modern" /\ handshakes'[h].stage \in {"initialized", "open"} /\ sessions' = sessions
        BY <1>u, <3>1, ShakesDoes DEF Shake, ShakeStages
      <4> QED
        BY <2>2, <2>3, <2>4, <4>1 DEF McpInv, NotPoisoned, Answered
    <3>2. CASE ShakeFails(h)
      <4>1. handshakes'[h].stage = "failed" /\ \A e \in sessions' : e.shake # h
        BY <1>u, <3>2, ShakesDoes DEF ShakeFails, Forgetting, ShakeStages
      <4> QED
        BY <2>2, <2>3, <2>4, <4>1 DEF McpInv, NotPoisoned, Answered
    <3> QED
      BY <1>8, <3>1, <3>2
  <2> QED
    BY <1>t, <1>r, <2>3, <2>5, <2>6 DEF McpInv, RightEra, Road
<1>9. ASSUME NEW c \in Calls, Enter(c) PROVE McpInv'
  <2> DEFINE key == CredentialOf[c]
  <2>1. /\ key \in Credentials /\ UNCHANGED <<server, ran, era, connecting>>
        /\ calls[c].stage = "ready" /\ era = "legacy" /\ ran[c] = 0
    BY <1>9, <1>r, McpClientAssumption DEF Enter, Road
  <2>2. CASE Remembered(key) # 0
    <3>1. PICK e \in sessions : e.key = key /\ Remembered(key) = e.shake
      BY <2>2 DEF Remembered
    <3>0. sessions \subseteq [key : Credentials, shake : DOMAIN handshakes]
      BY <1>t DEF TypeOK
    <3>2. e.shake \in DOMAIN handshakes /\ handshakes[e.shake].key = key /\ e.shake \in Nat
      BY <1>u, <3>0, <3>1 DEF McpInv, Keyed
    <3>3. Awaits(c, e.shake) /\ UNCHANGED <<sessions, handshakes>>
      BY <1>9, <2>2, <3>1 DEF Enter
    <3>4. /\ calls'[c].stage = "awaiting" /\ calls'[c].shake = e.shake
          /\ \A d \in Calls \ {c} : calls'[d] = calls[d]
      BY <1>u, <3>2, <3>3, AwaitsDoes
    <3>5. Road(c)'
      BY <2>1, <3>4 DEF Road
    <3> QED
      BY <1>t, <2>1, <3>2, <3>3, <3>4, <3>5, OneCall
  <2>3. CASE Remembered(key) = 0
    <3>1. Begin(key) /\ Awaits(c, Len(handshakes'))
      BY <1>9, <2>3 DEF Enter
    <3>2. Len(handshakes') \in Nat
      BY <1>t DEF TypeOK
    <3>3. /\ calls'[c].stage = "awaiting" /\ calls'[c].shake = Len(handshakes')
          /\ \A d \in Calls \ {c} : calls'[d] = calls[d]
      BY <1>u, <3>1, <3>2, AwaitsDoes
    <3>4. Keyed' /\ NotPoisoned' /\ Answered'
      BY <1>t, <2>1, <3>1, BeginKeeps DEF McpInv, Answered
    <3>5. OwnSession'
      <4>1. ASSUME NEW d \in Calls, calls'[d].stage \in {"awaiting", "posted"}
            PROVE  /\ calls'[d].shake \in DOMAIN handshakes'
                   /\ handshakes'[calls'[d].shake].key = CredentialOf[d]
        <5>1. CASE d = c
          BY <1>t, <2>1, <3>1, <3>3, <5>1, BeginKeeps
        <5>2. CASE d # c
          BY <1>t, <1>o, <2>1, <3>1, <3>3, <4>1, <5>2, BeginKeeps
        <5> QED
          BY <5>1, <5>2
      <4> QED
        BY <4>1 DEF OwnSession
    <3>6. \A d \in Calls : Road(d)'
      BY <1>r, <2>1, <3>3 DEF Road
    <3> QED
      BY <1>t, <2>1, <3>4, <3>5, <3>6 DEF McpInv, RightEra
  <2> QED
    BY <2>2, <2>3
<1>10. ASSUME NEW c \in Calls, Post(c) \/ Reply(c) \/ Gone(c) \/ Lost(c) PROVE McpInv'
  <2>1. /\ UNCHANGED <<server, era, connecting, handshakes>> /\ sessions' \subseteq sessions
        /\ calls[c].stage \in {"awaiting", "posted"}
    BY <1>10 DEF Post, Reply, Gone, Lost, Forgetting
  <2>2. era = "legacy" /\ ran[c] = 0
    BY <1>r, <2>1 DEF Road
  <2>3. \A d \in Calls \ {c} : calls'[d] = calls[d]
    BY <1>10, <1>u, MovesDoes, RestartsDoes DEF Post, Reply, Gone, Lost, CallStages
  <2>4. \/ calls'[c].stage \in {"posted", "failed", "ready"} /\ ran' = ran
        \/ calls'[c].stage \in {"done", "failed"} /\ ran' = [ran EXCEPT ![c] = @ + 1]
    BY <1>10, <1>u, MovesDoes, RestartsDoes DEF Post, Reply, Gone, Lost, CallStages
  <2>5. Road(c)' /\ \A d \in Calls \ {c} : ran'[d] = ran[d]
    <3>1. CASE calls'[c].stage \in {"posted", "failed", "ready"} /\ ran' = ran
      BY <2>1, <2>2, <3>1 DEF Road
    <3>2. CASE calls'[c].stage \in {"done", "failed"} /\ ran' = [ran EXCEPT ![c] = @ + 1]
      <4>1. ran'[c] = 1 /\ \A d \in Calls \ {c} : ran'[d] = ran[d]
        BY <1>u, <2>2, <3>2
      <4> QED
        BY <2>1, <2>2, <3>2, <4>1 DEF Road
    <3> QED
      BY <2>4, <3>1, <3>2
  <2>6. calls'[c].stage \in {"awaiting", "posted"} => calls'[c].shake = calls[c].shake
    BY <1>10, <1>u, MovesDoes, RestartsDoes DEF Post, Reply, Gone, Lost, CallStages
  <2> QED
    BY <1>t, <1>o, <2>1, <2>3, <2>5, <2>6, OneCall
<1>11. ASSUME NEW c \in Calls, Send(c) \/ Complete(c) \/ Broken(c) \/ InputRequired(c) PROVE McpInv'
  <2>1. UNCHANGED <<server, era, connecting, handshakes, sessions>> /\ era = "modern"
    BY <1>11, <1>r DEF Send, Complete, Broken, InputRequired, Road
  <2>2. 0 \in Nat /\ calls[c].attempt \in Nat /\ calls[c].round \in Nat
    BY <1>u DEF CallRec
  <2>3. calls'[c].stage \in {"sent", "done", "failed"} /\ \A d \in Calls \ {c} : calls'[d] = calls[d]
    <3>1. CASE Send(c) \/ Complete(c)
      BY <1>u, <3>1, MovesDoes DEF Send, Complete, CallStages
    <3>2. CASE Broken(c) \/ InputRequired(c)
      BY <1>u, <2>2, <3>2, MovesDoes, RetriesDoes DEF Broken, InputRequired, CallStages
    <3> QED
      BY <1>11, <3>1, <3>2
  <2>4. /\ \A d \in Calls \ {c} : ran'[d] = ran[d]
        /\ calls'[c].stage = "done" => ran'[c] >= 1
    <3>1. CASE Send(c) \/ InputRequired(c)
      BY <1>u, <2>2, <3>1, MovesDoes, RetriesDoes DEF Send, InputRequired, CallStages
    <3>2. CASE Complete(c)
      BY <1>u, <3>2 DEF Complete
    <3>3. CASE Broken(c)
      <4>1. PICK n \in {0, 1} : ran' = [ran EXCEPT ![c] = @ + n]
        BY <3>3 DEF Broken
      <4>2. calls'[c].stage # "done"
        BY <1>u, <2>2, <3>3, MovesDoes, RetriesDoes DEF Broken, CallStages
      <4> QED
        BY <1>u, <4>1, <4>2
    <3> QED
      BY <1>11, <3>1, <3>2, <3>3
  <2>5. Road(c)'
    BY <2>1, <2>3, <2>4 DEF Road
  <2> QED
    BY <1>t, <2>1, <2>3, <2>4, <2>5, OneCall
<1>12. CASE (\E h \in known : Expire(h)) \/ UNCHANGED vars
  <2>1. UNCHANGED <<server, ran, era, connecting, sessions, handshakes, calls>>
    BY <1>12 DEF Expire, vars
  <2> QED
    BY <1>t, <1>r, <2>1 DEF McpInv, Keyed, NotPoisoned, OwnSession, RightEra, Answered, Road
<1> QED
  BY <1>1, <1>3, <1>4, <1>5, <1>6, <1>7, <1>8, <1>9, <1>10, <1>11, <1>12
  DEF Next, Probe, Shaking, Rest, Legacy, Modern

-----------------------------------------------------------------------------
THEOREM McpInvAlways == Spec => []McpInv
  BY McpInit, McpNext, PTL DEF Spec

\* A call never rides on the session of another credential.
THEOREM CallsKeepTheirSession == Spec => []OwnSession
<1>1. McpInv => OwnSession
  BY DEF McpInv
<1> QED
  BY <1>1, McpInvAlways, PTL

\* With a legacy server a call is carried out at most once, and an answered one was.
THEOREM CallsRunOnce == Spec => []RunsOnce
<1>1. McpInv => RunsOnce
  <2> SUFFICES ASSUME McpInv PROVE RunsOnce
    OBVIOUS
  <2>1. \A c \in Calls : Road(c)
    BY DEF McpInv
  <2> QED
    BY <2>1 DEF RunsOnce, Road
<1> QED
  BY <1>1, McpInvAlways, PTL

\* The verdict on the era fits the server, whatever faults the probe met.
THEOREM VerdictFits == Spec => []RightEra
<1>1. McpInv => RightEra
  BY DEF McpInv
<1> QED
  BY <1>1, McpInvAlways, PTL

\* No credential is left with a failed handshake for its session.
THEOREM FailuresAreForgotten == Spec => []NotPoisoned
<1>1. McpInv => NotPoisoned
  BY DEF McpInv
<1> QED
  BY <1>1, McpInvAlways, PTL

-----------------------------------------------------------------------------
(* Callers share handshakes.                                               *)

Of(k) == {h \in DOMAIN handshakes : handshakes[h].key = k}

\* An entry that spares its credential another handshake: it may still open, or the
\* server knows it.
Spares(e) == handshakes[e.shake].stage = "initialize" \/ e.shake \in known
Live(k) == \E e \in sessions : e.key = k /\ Spares(e)

\* Each handshake of a credential is the one that spares it others or is accounted for.
Accounted(k) == Cardinality(Of(k)) <= blame[k] + (IF Live(k) THEN 1 ELSE 0)

StormInv ==
    /\ McpInv
    /\ era = "unknown" /\ connecting # "shake" => sessions = {}
    /\ connecting = "shake" => \A e \in sessions : e.shake = Len(handshakes)
    /\ \A c \in Calls : calls[c].stage = "posted" => handshakes[calls[c].shake].stage = "open"
    /\ \A k \in Credentials : Accounted(k)

LEMMA OfFinite ==
    ASSUME handshakes \in Seq(ShakeRec), NEW k
    PROVE  IsFiniteSet(Of(k)) /\ Cardinality(Of(k)) \in Nat
<1>1. Of(k) \in SUBSET (1..Len(handshakes)) /\ Len(handshakes) \in Nat
  BY DEF Of
<1>2. IsFiniteSet(1..Len(handshakes))
  BY <1>1, FS_Interval
<1> QED
  BY <1>1, <1>2, FS_Subset, FS_CardinalityType

\* The account stays even when no handshake begins, and what ceases to spare is charged.
LEMMA NoneBegun ==
    ASSUME NEW k \in Credentials, Accounted(k), Of(k)' = Of(k),
           blame \in [Credentials -> Nat], blame' \in [Credentials -> Nat],
           Cardinality(Of(k)) \in Nat, blame[k] <= blame'[k],
           Live(k) => Live(k)' \/ blame[k] + 1 <= blame'[k]
    PROVE  Accounted(k)'
<1>1. PICK n \in Nat : n = Cardinality(Of(k))
  OBVIOUS
<1>2. Cardinality(Of(k)') = n
  BY <1>1
<1>3. blame[k] \in Nat /\ blame'[k] \in Nat
  OBVIOUS
<1>4. n <= blame[k] + (IF Live(k) THEN 1 ELSE 0)
  BY <1>1 DEF Accounted
<1>5. n <= blame'[k] + (IF Live(k)' THEN 1 ELSE 0)
  BY <1>3, <1>4
<1> QED
  BY <1>2, <1>5 DEF Accounted

\* A step on which no handshake begins, moves or expires.
LEMMA QuietStep ==
    ASSUME StormInv, McpInv', UNCHANGED <<known, handshakes, blame>>, sessions' \subseteq sessions,
           \A e \in sessions \ sessions' : ~Spares(e),
           era' = "unknown" /\ connecting' # "shake" => sessions = {},
           connecting' = "shake" => connecting = "shake",
           \A c \in Calls : calls'[c].stage = "posted" => handshakes[calls'[c].shake].stage = "open"
    PROVE  StormInv'
<1>1. /\ handshakes \in Seq(ShakeRec) /\ blame \in [Credentials -> Nat]
      /\ blame' \in [Credentials -> Nat]
  BY DEF StormInv, McpInv, TypeOK, ShakeRec, ShakeStages
<1>2. ASSUME NEW k \in Credentials PROVE Accounted(k)'
  <2>1. Of(k)' = Of(k)
    BY DEF Of
  <2>2. Live(k) => Live(k)'
    BY DEF Live, Spares
  <2>3. Accounted(k) /\ blame[k] <= blame'[k] /\ Cardinality(Of(k)) \in Nat
    BY <1>1, OfFinite DEF StormInv
  <2> QED
    BY <1>1, <2>1, <2>2, <2>3, NoneBegun
<1> QED
  BY <1>2 DEF StormInv

\* A handshake that begins is its credential's only one that spares it others.
LEMMA BeginIsAccounted ==
    ASSUME StormInv, McpInv', NEW key \in Credentials, Begin(key), known' = known,
           \A e \in sessions : e.key # key
    PROVE  \A k \in Credentials : Accounted(k)'
<1> DEFINE n == Len(handshakes) + 1
<1>0. /\ TypeOK /\ handshakes \in Seq(ShakeRec) /\ blame \in [Credentials -> Nat]
      /\ blame' \in [Credentials -> Nat]
  BY DEF StormInv, McpInv, TypeOK, ShakeRec, ShakeStages
<1>1. /\ DOMAIN handshakes = 1..Len(handshakes) /\ DOMAIN handshakes' = 1..n
      /\ n \in Nat /\ n \notin 1..Len(handshakes) /\ 1..n = 1..Len(handshakes) \cup {n}
      /\ handshakes'[n] = [key |-> key, stage |-> "initialize"]
      /\ \A h \in DOMAIN handshakes : h \in DOMAIN handshakes' /\ handshakes'[h] = handshakes[h]
  BY <1>0, BeginType
<1>2. PICK out \in SUBSET sessions :
         /\ sessions' = {[key |-> key, shake |-> n]} \cup (sessions \ out)
         /\ \/ out = {} /\ blame' = blame
            \/ \E e \in sessions : out = {e} /\ blame' = [blame EXCEPT ![e.key] = @ + 1]
  BY <1>0, BeginMakesRoom
<1>3. \A e \in sessions : e.shake \in DOMAIN handshakes /\ e.key \in Credentials
  BY <1>0 DEF TypeOK
<1>4. ASSUME NEW k \in Credentials, k # key PROVE Accounted(k)'
  <2>1. Of(k)' = Of(k)
    BY <1>1, <1>4 DEF Of
  <2>2. Live(k) => Live(k)' \/ \E e \in out : e.key = k
    BY <1>1, <1>2, <1>3 DEF Live, Spares
  <2>3. blame[k] <= blame'[k] /\ ((\E e \in out : e.key = k) => blame[k] + 1 <= blame'[k])
    BY <1>0, <1>2, <1>3
  <2>4. Accounted(k) /\ Cardinality(Of(k)) \in Nat
    BY <1>0, OfFinite DEF StormInv
  <2> QED
    BY <1>0, <2>1, <2>2, <2>3, <2>4, NoneBegun
<1>5. Accounted(key)'
  <2>1. Of(key)' = Of(key) \cup {n} /\ n \notin Of(key)
    BY <1>1 DEF Of
  <2>2. IsFiniteSet(Of(key)) /\ Cardinality(Of(key)) \in Nat
    BY <1>0, OfFinite
  <2>3. PICK m \in Nat : m = Cardinality(Of(key))
    BY <2>2
  <2>4. Cardinality(Of(key)') = m + 1
    BY <2>1, <2>2, <2>3, FS_AddElement
  <2>5. ~Live(key)
    BY DEF Live
  <2>6. m <= blame[key] + 0
    BY <2>3, <2>5 DEF StormInv, Accounted
  <2>7. Live(key)'
    <3>1. PICK e : e = [key |-> key, shake |-> n]
      OBVIOUS
    <3>2. e \in sessions' /\ e.key = key /\ handshakes'[e.shake].stage = "initialize"
      BY <1>1, <1>2, <3>1
    <3> QED
      BY <3>2 DEF Live, Spares
  <2>8. blame[key] <= blame'[key] /\ blame[key] \in Nat /\ blame'[key] \in Nat
    BY <1>0, <1>2, <1>3
  <2>9. m + 1 <= blame'[key] + 1
    BY <2>6, <2>8
  <2> QED
    BY <2>4, <2>7, <2>9 DEF Accounted
<1> QED
  BY <1>4, <1>5

\* A handshake moves, fails or expires, and what ceases to spare is charged.
LEMMA HandshakeStep ==
    ASSUME StormInv, McpInv', NEW h \in DOMAIN handshakes,
           Shake(h) \/ ShakeFails(h) \/ (h \in known /\ Expire(h))
    PROVE  \A k \in Credentials : Accounted(k)'
<1> USE DEF world, client
<1>s. handshakes \in Seq(ShakeRec)
  BY DEF StormInv, McpInv, TypeOK, ShakeRec, ShakeStages
<1>0. /\ handshakes \in Seq(ShakeRec) /\ blame \in [Credentials -> Nat]
      /\ blame' \in [Credentials -> Nat] /\ handshakes[h] \in ShakeRec
      /\ sessions \subseteq [key : Credentials, shake : DOMAIN handshakes]
      /\ \A e \in sessions : handshakes[e.shake].key = e.key
  BY <1>s DEF StormInv, McpInv, TypeOK, Keyed
<1>1. handshakes[h].key \in Credentials
  BY <1>0 DEF ShakeRec
<1> SUFFICES ASSUME NEW k \in Credentials PROVE Accounted(k)'
  OBVIOUS
<1>2. Accounted(k) /\ Cardinality(Of(k)) \in Nat
  BY <1>0, OfFinite DEF StormInv
<1>3. /\ DOMAIN handshakes' = DOMAIN handshakes /\ handshakes'[h].key = handshakes[h].key
      /\ \A g \in DOMAIN handshakes : g # h => handshakes'[g] = handshakes[g]
  BY <1>0, ShakesDoes DEF Shake, ShakeFails, Expire, ShakeStages
<1>4. Of(k)' = Of(k)
  BY <1>3 DEF Of
<1>5. CASE Shake(h)
  <2>1. sessions' = sessions /\ blame' = blame /\ known \subseteq known'
    BY <1>5 DEF Shake
  <2>2. handshakes[h].stage = "initialize" => h \in known'
    BY <1>5 DEF Shake
  <2>3. Live(k) => Live(k)'
    BY <1>0, <1>3, <2>1, <2>2 DEF Live, Spares
  <2> QED
    BY <1>0, <1>2, <1>4, <2>1, <2>3, NoneBegun
<1>6. CASE ShakeFails(h)
  <2>1. /\ sessions' = {e \in sessions : e.shake # h} /\ known' = known
        /\ blame' = [blame EXCEPT ![handshakes[h].key] = @ + 1]
    BY <1>6 DEF ShakeFails, Forgetting
  <2>2. Live(k) => Live(k)' \/ handshakes[h].key = k
    BY <1>0, <1>3, <2>1 DEF Live, Spares
  <2>3. blame[k] <= blame'[k] /\ (handshakes[h].key = k => blame[k] + 1 <= blame'[k])
    BY <1>0, <1>1, <2>1
  <2> QED
    BY <1>0, <1>2, <1>4, <2>2, <2>3, NoneBegun
<1>7. CASE Expire(h)
  <2>1. /\ sessions' = sessions /\ known' = known \ {h} /\ handshakes' = handshakes
        /\ blame' = [blame EXCEPT ![handshakes[h].key] = @ + 1]
    BY <1>7 DEF Expire
  <2>2. Live(k) => Live(k)' \/ handshakes[h].key = k
    BY <1>0, <1>3, <2>1 DEF Live, Spares
  <2>3. blame[k] <= blame'[k] /\ (handshakes[h].key = k => blame[k] + 1 <= blame'[k])
    BY <1>0, <1>1, <2>1
  <2> QED
    BY <1>0, <1>2, <1>4, <2>2, <2>3, NoneBegun
<1> QED
  BY <1>5, <1>6, <1>7

LEMMA StormInit == Init => StormInv
<1> SUFFICES ASSUME Init PROVE StormInv
  OBVIOUS
<1>1. McpInv /\ handshakes \in Seq(ShakeRec)
  BY McpInit DEF McpInv, TypeOK, ShakeRec, ShakeStages
<1>2. sessions = {} /\ connecting = "no" /\ \A c \in Calls : calls[c].stage = "idle"
  BY DEF Init, Idle
<1>3. ASSUME NEW k \in Credentials PROVE Accounted(k)
  <2>1. Of(k) = {} /\ blame[k] = 0 /\ ~Live(k)
    BY DEF Init, Of, Live
  <2> QED
    BY <2>1, FS_EmptySet DEF Accounted
<1> QED
  BY <1>1, <1>2, <1>3 DEF StormInv

LEMMA StormNext == StormInv /\ [Next]_vars => StormInv'
<1> SUFFICES ASSUME StormInv, [Next]_vars PROVE StormInv'
  OBVIOUS
<1> USE DEF world, client
<1>i. McpInv /\ McpInv'
  BY McpNext DEF StormInv
<1>u. /\ calls \in [Calls -> CallRec] /\ handshakes \in Seq(ShakeRec)
      /\ sessions \subseteq [key : Credentials, shake : DOMAIN handshakes]
  BY <1>i DEF McpInv, TypeOK, CallRec, ShakeRec, CallStages, ShakeStages
<1>p. /\ \A c \in Calls : calls[c].stage = "posted" => handshakes[calls[c].shake].stage = "open"
      /\ \A c \in Calls : calls[c].stage \in {"awaiting", "posted"} =>
            calls[c].shake \in DOMAIN handshakes
      /\ era = "unknown" /\ connecting # "shake" => sessions = {}
      /\ \A c \in Calls : Road(c)
  BY <1>i DEF StormInv, McpInv, OwnSession
<1>1. ASSUME NEW c \in Calls, Request(c) PROVE StormInv'
  <2>1. \E stage \in {"ready", "connecting"} : Moves(c, stage)
    BY <1>1 DEF Request
  <2>2. \A d \in Calls : calls'[d].stage = "posted" => calls'[d] = calls[d]
    BY <1>u, <2>1, MovesDoes DEF CallStages
  <2>3. UNCHANGED <<known, handshakes, blame, sessions, era>>
    BY <1>1 DEF Request
  <2> QED
    BY <1>i, <1>p, <1>1, <2>2, <2>3, QuietStep DEF Request
<1>2. CASE Discovered \/ Rejected \/ Refused
  <2>1. UNCHANGED <<known, handshakes, blame, sessions>> /\ Discovering
    BY <1>2 DEF Discovered, Rejected, Refused
  <2>2. calls' = calls \/ \E stage \in {"ready", "failed"} : Connected(stage)
    BY <1>2 DEF Discovered, Rejected, Refused
  <2>3. \A d \in Calls : calls'[d].stage = "posted" =>
           calls[d].stage = "posted" /\ calls'[d].shake = calls[d].shake
    BY <1>u, <2>2, ConnectedDoes
  <2>4. connecting' # "shake" /\ sessions = {}
    <3>1. connecting' # "shake"
      BY <1>2 DEF Discovered, Rejected, Refused, Connected
    <3>2. era = "unknown" /\ connecting # "shake"
      BY <1>i, <2>1 DEF McpInv, Answered, Discovering
    <3> QED
      BY <1>p, <3>1, <3>2
  <2> QED
    BY <1>i, <1>p, <2>1, <2>3, <2>4, QuietStep
<1>3. CASE Settled
  <2>1. UNCHANGED <<known, handshakes, blame, sessions>> /\ connecting = "shake"
    BY <1>3 DEF Settled
  <2>2. \E stage \in {"ready", "failed"} : Connected(stage)
    BY <1>3 DEF Settled
  <2>3. /\ \A d \in Calls : calls'[d].stage = "posted" =>
              calls[d].stage = "posted" /\ calls'[d].shake = calls[d].shake
        /\ connecting' = "no"
    BY <1>u, <2>2, ConnectedDoes
  <2>4. era' = "unknown" => sessions = {}
    <3> SUFFICES ASSUME era' = "unknown" PROVE sessions = {}
      OBVIOUS
    <3>1. handshakes[ProbeShake].stage = "failed"
      BY <1>3 DEF Settled
    <3>2. \A e \in sessions : e.shake = ProbeShake
      BY <2>1 DEF StormInv, ProbeShake
    <3> QED
      BY <1>i, <3>1, <3>2 DEF McpInv, NotPoisoned
  <2> QED
    BY <1>i, <1>p, <2>1, <2>3, <2>4, QuietStep
<1>4. CASE TryLegacy
  <2>1. /\ Begin(Discovery) /\ Discovery \in Credentials /\ UNCHANGED <<known, calls>>
        /\ connecting' = "shake"
    BY <1>4, McpClientAssumption DEF TryLegacy
  <2>2. sessions = {} /\ era = "unknown"
    BY <1>4, <1>i, <1>p DEF TryLegacy, Discovering, McpInv, Answered
  <2>3. TypeOK
    BY <1>i DEF McpInv
  <2>4. \A e \in sessions' : e.shake = Len(handshakes')
    <3>1. PICK n : n = Len(handshakes) + 1
      OBVIOUS
    <3>2. Len(handshakes') = n
      BY <2>1, <2>3, <3>1, BeginType
    <3>3. PICK entry : entry = [key |-> Discovery, shake |-> n]
      OBVIOUS
    <3>4. sessions' = {entry}
      BY <2>1, <2>2, <2>3, <3>1, <3>3, BeginMakesRoom
    <3> QED
      BY <3>2, <3>3, <3>4
  <2>5. \A c \in Calls : calls'[c].stage # "posted"
    BY <1>p, <2>1, <2>2 DEF Road
  <2>6. \A k \in Credentials : Accounted(k)'
    BY <1>i, <2>1, <2>2, BeginIsAccounted
  <2> QED
    BY <1>i, <2>1, <2>4, <2>5, <2>6 DEF StormInv
<1>5. ASSUME NEW h \in DOMAIN handshakes, Shake(h) \/ ShakeFails(h) \/ (h \in known /\ Expire(h))
      PROVE  StormInv'
  <2>1. \A k \in Credentials : Accounted(k)'
    BY <1>i, <1>5, HandshakeStep
  <2>2. UNCHANGED <<era, connecting, calls>> /\ sessions' \subseteq sessions
    BY <1>5 DEF Shake, ShakeFails, Expire, Forgetting
  <2>3. /\ Len(handshakes') = Len(handshakes)
        /\ \A g \in DOMAIN handshakes : g # h => handshakes'[g] = handshakes[g]
        /\ handshakes[h].stage = "open" => handshakes'[h].stage = "open"
    BY <1>5, <1>u, ShakesDoes DEF Shake, ShakeFails, Expire, ShakeStages
  <2>4. \A c \in Calls : calls'[c].stage = "posted" => handshakes'[calls'[c].shake].stage = "open"
    BY <1>p, <2>2, <2>3
  <2> QED
    BY <1>i, <2>1, <2>2, <2>3, <2>4 DEF StormInv
<1>6. ASSUME NEW c \in Calls, Enter(c) PROVE StormInv'
  <2> DEFINE key == CredentialOf[c]
  <2>1. /\ key \in Credentials /\ UNCHANGED <<known, era, connecting>> /\ era = "legacy"
        /\ connecting = "no"
    BY <1>6, <1>i, McpClientAssumption DEF Enter, McpInv, TypeOK, Answered
  <2>2. CASE Remembered(key) # 0
    <3>1. PICK e \in sessions : Remembered(key) = e.shake
      BY <2>2 DEF Remembered
    <3>2. Awaits(c, e.shake) /\ UNCHANGED <<sessions, handshakes, blame>> /\ e.shake \in Nat
      BY <1>6, <1>u, <2>2, <3>1 DEF Enter
    <3>3. \A d \in Calls : calls'[d].stage = "posted" => calls'[d] = calls[d]
      BY <1>u, <3>2, AwaitsDoes
    <3> QED
      BY <1>i, <1>p, <2>1, <3>2, <3>3, QuietStep
  <2>3. CASE Remembered(key) = 0
    <3>1. Begin(key) /\ Awaits(c, Len(handshakes'))
      BY <1>6, <2>3 DEF Enter
    <3>2. \A e \in sessions : e.key # key
      <4>1. ASSUME NEW e \in sessions, e.key = key PROVE FALSE
        <5>1. \A f \in sessions : f.shake # 0
          BY <1>u
        <5>2. (CHOOSE f \in sessions : f.key = key) \in sessions
          BY <4>1
        <5> QED
          BY <2>3, <4>1, <5>1, <5>2 DEF Remembered
      <4> QED
        BY <4>1
    <3>3. TypeOK /\ Len(handshakes') \in Nat
      <4>1. TypeOK
        BY <1>i DEF McpInv
      <4> QED
        BY <2>1, <3>1, <4>1, BeginType
    <3>4. \A d \in Calls : calls'[d].stage = "posted" => calls'[d] = calls[d]
      BY <1>u, <3>1, <3>3, AwaitsDoes
    <3>5. \A d \in Calls : calls'[d].stage = "posted" => handshakes'[calls'[d].shake].stage = "open"
      BY <1>p, <2>1, <3>1, <3>3, <3>4, BeginType
    <3>6. \A k \in Credentials : Accounted(k)'
      BY <1>i, <2>1, <3>1, <3>2, BeginIsAccounted
    <3> QED
      BY <1>i, <2>1, <3>5, <3>6 DEF StormInv
  <2> QED
    BY <2>2, <2>3
<1>7. ASSUME NEW c \in Calls, Post(c) \/ Reply(c) \/ Gone(c) \/ Lost(c) PROVE StormInv'
  <2>1. /\ UNCHANGED <<known, era, connecting, handshakes, blame>> /\ sessions' \subseteq sessions
        /\ calls[c].stage \in {"awaiting", "posted"}
    BY <1>7 DEF Post, Reply, Gone, Lost, Forgetting
  <2>2. era # "unknown" /\ connecting # "shake"
    BY <1>p, <1>i, <2>1 DEF Road, McpInv, Answered
  <2>3. \A d \in Calls \ {c} : calls'[d] = calls[d]
    BY <1>7, <1>u, MovesDoes, RestartsDoes DEF Post, Reply, Gone, Lost, CallStages
  <2>4. calls'[c].stage = "posted" => handshakes[calls'[c].shake].stage = "open"
    BY <1>7, <1>u, MovesDoes, RestartsDoes DEF Post, Reply, Gone, Lost, CallStages
  <2>5. \A e \in sessions \ sessions' : ~Spares(e)
    BY <1>7, <1>p DEF Post, Reply, Gone, Lost, Forgetting, Spares
  <2> QED
    BY <1>i, <1>p, <2>1, <2>2, <2>3, <2>4, <2>5, QuietStep
<1>8. ASSUME NEW c \in Calls, Send(c) \/ Complete(c) \/ Broken(c) \/ InputRequired(c) PROVE StormInv'
  <2>1. UNCHANGED <<known, era, connecting, handshakes, blame, sessions>> /\ era = "modern"
    BY <1>8, <1>p DEF Send, Complete, Broken, InputRequired, Road
  <2>2. calls'[c].stage # "posted" /\ \A d \in Calls \ {c} : calls'[d] = calls[d]
    <3>1. CASE Send(c) \/ Complete(c)
      BY <1>u, <3>1, MovesDoes DEF Send, Complete, CallStages
    <3>2. CASE Broken(c) \/ InputRequired(c)
      <4>1. 0 \in Nat /\ calls[c].attempt \in Nat /\ calls[c].round \in Nat
        BY <1>u DEF CallRec
      <4> QED
        BY <1>u, <3>2, <4>1, MovesDoes, RetriesDoes DEF Broken, InputRequired, CallStages
    <3> QED
      BY <1>8, <3>1, <3>2
  <2>3. connecting # "shake"
    BY <1>i, <2>1 DEF McpInv, Answered
  <2> QED
    BY <1>i, <1>p, <2>1, <2>2, <2>3, QuietStep
<1>9. CASE UNCHANGED vars
  <2>1. UNCHANGED <<known, era, connecting, handshakes, blame, sessions, calls>>
    BY <1>9 DEF vars
  <2> QED
    BY <1>i, <1>p, <2>1, QuietStep
<1>k. known \subseteq DOMAIN handshakes
  BY <1>i DEF McpInv, TypeOK
<1> QED
  BY <1>k, <1>1, <1>2, <1>3, <1>4, <1>5, <1>6, <1>7, <1>8, <1>9
  DEF Next, Probe, Shaking, Rest, Legacy, Modern

\* Callers share handshakes: a credential begins another only when one of its sessions
\* expired, failed to open or was dropped for room, once for each such event.
THEOREM HandshakesAreShared == Spec => []NoStorm
<1>1. StormInv => NoStorm
  <2> SUFFICES ASSUME StormInv, NEW k \in Credentials
               PROVE  Cardinality({h \in DOMAIN handshakes : handshakes[h].key = k}) <= 1 + blame[k]
    BY DEF NoStorm
  <2>1. Accounted(k) /\ blame \in [Credentials -> Nat] /\ handshakes \in Seq(ShakeRec)
    BY DEF StormInv, McpInv, TypeOK, ShakeRec, ShakeStages
  <2>2. Cardinality(Of(k)) \in Nat
    BY <2>1, OfFinite
  <2>3. Cardinality(Of(k)) <= 1 + blame[k]
    BY <2>1, <2>2 DEF Accounted
  <2> QED
    BY <2>3 DEF Of
<1> QED
  BY <1>1, StormInit, StormNext, PTL DEF Spec
=============================================================================
