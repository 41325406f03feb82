------------------------------- MODULE TurnIds -------------------------------
(***************************************************************************)
(* The ids of turns: mintTurnId of packages/core/src/agent-runtime.ts, a   *)
(* monotonic ULID.  48 bits of time and 80 random bits, of which an id     *)
(* minted in the same millisecond (or after the clock was set back) is the *)
(* successor.  One isolate: a new one starts over, and keeps its ids apart *)
(* by chance.                                                              *)
(***************************************************************************)
EXTENDS Integers, Sequences

CONSTANTS
    Base,           \* values of one random byte: 256
    Width,          \* random bytes: 10
    Digit,          \* values of one character: 32
    TimeDigits,     \* characters of the time: 10
    Group,          \* bytes that are written together: 5
    GroupDigits,    \* characters of a group: 8
    MaxMs,          \* bound: the clock
    MaxIds          \* bound: ids minted

ASSUME TurnIdsAssumption ==
    /\ Base \in Nat \ {0} /\ Width \in Nat \ {0} /\ Digit \in Nat \ {0}
    /\ TimeDigits \in Nat /\ Group \in Nat \ {0} /\ GroupDigits \in Nat
    /\ MaxMs \in Nat /\ MaxIds \in Nat

VARIABLES
    lastMs,         \* the time of the latest id, -1 before the first
    lastRand,       \* its random block, most significant byte first
    ids             \* the ids minted, oldest first

idVars == <<lastMs, lastRand, ids>>

Rand == [1..Width -> 0..Base-1]
Id   == [ms : Int, rand : Rand]

\* a sorts before b, as numbers of so many digits do.
Before(a, b) ==
    \/ a.ms < b.ms
    \/ a.ms = b.ms /\ \E i \in 1..Width : /\ a.rand[i] < b.rand[i]
                                          /\ \A j \in 1..i-1 : a.rand[j] = b.rand[j]
-----------------------------------------------------------------------------
\* Byte i is reached by the carry: every byte after it is at its maximum.
Carried(r, i) == \A j \in i+1..Width : r[j] = Base - 1

RollsOver(r) == \A i \in 1..Width : r[i] = Base - 1

\* Mutants: a byte at its maximum stays there; the time is not borrowed from.
BumpedSaturating(r) ==
    [i \in 1..Width |-> IF Carried(r, i) /\ r[i] < Base - 1 THEN r[i] + 1 ELSE r[i]]
NeverRollsOver(ms, r) == ms

\* The random block plus one, byte by byte from the last.
Bumped(r) ==
    [i \in 1..Width |-> IF ~Carried(r, i) THEN r[i]
                        ELSE IF r[i] = Base - 1 THEN 0 ELSE r[i] + 1]

\* A block that rolls over borrows a millisecond from the time.
BumpedMs(ms, r) == IF RollsOver(r) THEN ms + 1 ELSE ms

Emitted == ids' = Append(ids, [ms |-> lastMs', rand |-> lastRand'])

\* A later millisecond: a fresh random block.
MintFresh ==
    \E now \in 0..MaxMs, fresh \in Rand :
        /\ now > lastMs
        /\ lastMs' = now /\ lastRand' = fresh
        /\ Emitted

\* The same millisecond, or a clock that was set back.
MintAgain ==
    /\ \E now \in 0..MaxMs : now <= lastMs
    /\ lastMs' = BumpedMs(lastMs, lastRand) /\ lastRand' = Bumped(lastRand)
    /\ Emitted

Mint == Len(ids) < MaxIds /\ (MintFresh \/ MintAgain)

MintInit == lastMs = -1 /\ lastRand = [i \in 1..Width |-> 0] /\ ids = << >>

MintSpec == MintInit /\ [][Mint]_idVars
-----------------------------------------------------------------------------
(* The text of an id: the time in TimeDigits characters, each group of     *)
(* bytes in GroupDigits; a character is its place in the alphabet, which   *)
(* is in the order of the characters' codes.                               *)

\* n in k digits, most significant first.
Digits(n, k) == [i \in 1..k |-> (n \div Digit^(k - i)) % Digit]

\* The bytes of group g as one number.
GroupNumber(r, g) ==
    LET upTo[n \in 0..Group] == IF n = 0 THEN 0 ELSE upTo[n-1] * Base + r[(g-1) * Group + n]
    IN  upTo[Group]

Text(id) ==
    [i \in 1..TimeDigits + (Width \div Group) * GroupDigits |->
        IF i <= TimeDigits THEN Digits(id.ms, TimeDigits)[i]
        ELSE LET at == i - TimeDigits - 1
             IN  Digits(GroupNumber(id.rand, at \div GroupDigits + 1), GroupDigits)
                     [(at % GroupDigits) + 1]]

TextBefore(s, t) ==
    \E i \in DOMAIN s : s[i] < t[i] /\ \A j \in 1..i-1 : s[j] = t[j]

\* What is proved of the numbers holds of the texts, over the clock's range and
\* the millisecond a block may borrow.
TextKeepsOrder ==
    \A a, b \in [ms : 0..MaxMs+1, rand : Rand] :
        Before(a, b) <=> TextBefore(Text(a), Text(b))
-----------------------------------------------------------------------------
\* Ids increase strictly in the order of their minting, within a millisecond,
\* over a clock that is set back and over a random block that rolls over; so
\* none is minted twice, and a ledger sorted by id is in insertion order.
StrictlyIncreasing ==
    \A i, j \in DOMAIN ids : i < j => Before(ids[i], ids[j])
=============================================================================
