----------------------------- MODULE AtomicSwap -----------------------------
(***************************************************************************)
(* AtomicSwapBuilder (src/execution/atomic_swap.py): two Jupiter quotes,   *)
(* the second for what the first is expected to yield, compiled into one   *)
(* transaction.  Amounts are native units.  An instruction is known by its *)
(* leg and its part in Jupiter's answer.                                   *)
(***************************************************************************)
EXTENDS Naturals, Sequences, SequencesExt

CONSTANTS
    Legs,       \* legs a caller may pass: tokens, amount, and the venue by its prefix
    OutAmounts, \* amounts a quote may name
    LookupKeys  \* address lookup tables

ASSUME AtomicAssumption ==
    /\ \A leg \in Legs : DOMAIN leg = {"from", "to", "amount", "venue"} /\ leg.amount \in Nat
    /\ OutAmounts \subseteq Nat

VARIABLES
    swStage,    \* "plan", "second", "fetchA", "fetchB", "built", "raised"
    swLegs,     \* leg_a and leg_b: tokens, the caller's amount, venue
    swAsked,    \* what was asked of Jupiter: tokens, amount, dexes
    swQuoted,   \* the out amounts it quoted
    swRaw,      \* its instructions for each quote
    swTx        \* the compiled message

swVars == <<swStage, swLegs, swAsked, swQuoted, swRaw, swTx>>

RawAnswers ==
    [budget : BOOLEAN, setup : BOOLEAN, swap : BOOLEAN, cleanup : BOOLEAN,
     alts : {<<>>} \cup {<<k>> : k \in LookupKeys}]
EmptyTx == [instructions |-> <<>>, alts |-> <<>>]

\* venue_to_jupiter_dexes: no restriction for Jupiter's own and unknown venues.
Dexes(venue) ==
    CASE venue = "Raydium" -> {"Raydium", "Raydium CLMM"}
      [] venue = "Orca" -> {"Whirlpool", "Orca V2"}
      [] OTHER -> {}

SwInit ==
    /\ swStage = "plan"
    /\ swLegs = <<>>
    /\ swAsked = <<>>
    /\ swQuoted = <<>>
    /\ swRaw = <<>>
    /\ swTx = EmptyTx

Ask(leg, amount) == swAsked' = Append(swAsked, [from |-> leg.from, to |-> leg.to, amount |-> amount, dexes |-> Dexes(leg.venue)])

\* Any request may raise, out of plan_two_leg or build_atomic_tx.
SwRaises ==
    /\ swStage \in {"plan", "second", "fetchA", "fetchB"}
    /\ swStage' = "raised"
    /\ UNCHANGED <<swLegs, swAsked, swQuoted, swRaw, swTx>>

\* The first quote comes before the check that the legs meet.
QuoteFirst(a, b, out) ==
    /\ swStage = "plan"
    /\ swLegs' = <<a, b>>
    /\ Ask(a, a.amount)
    /\ swQuoted' = <<out>>
    /\ swStage' = IF a.to = b.from THEN "second" ELSE "raised"
    /\ UNCHANGED <<swRaw, swTx>>

ChainedAmount == swQuoted[1]

QuoteSecond(out) ==
    /\ swStage = "second"
    /\ Ask(swLegs[2], ChainedAmount)
    /\ swQuoted' = Append(swQuoted, out)
    /\ swStage' = "fetchA"
    /\ UNCHANGED <<swLegs, swRaw, swTx>>

\* _fetch_swap_instructions, _parse_swap_instructions: what is missing from the
\* answer is missing from the result.
FetchFirst(raw) ==
    /\ swStage = "fetchA"
    /\ swRaw' = <<raw>>
    /\ swStage' = "fetchB"
    /\ UNCHANGED <<swLegs, swAsked, swQuoted, swTx>>

Part(leg, kind) == IF swRaw'[leg][kind] THEN <<[leg |-> leg, kind |-> kind]>> ELSE <<>>

\* Mutant: a second leg that needs no set-up is taken for one that is not there.
InstructionsSecondSkipped ==
    LET second == Part(2, "setup") \o Part(2, "swap") \o Part(2, "cleanup")
    IN  Part(1, "budget") \o Part(1, "setup") \o Part(1, "swap") \o Part(1, "cleanup")
            \o (IF Part(2, "setup") = <<>> THEN <<>> ELSE second)

\* The budget header of leg A alone, then each leg's setup, swap and cleanup.
Instructions ==
    Part(1, "budget") \o Part(1, "setup") \o Part(1, "swap") \o Part(1, "cleanup")
                      \o Part(2, "setup") \o Part(2, "swap") \o Part(2, "cleanup")

\* alt_keys: the tables of both answers, each once; an answer names one or none.
AltKeys ==
    LET first == swRaw'[1].alts
        second == swRaw'[2].alts
    IN IF second = <<>> \/ ToSet(second) \subseteq ToSet(first) THEN first ELSE Append(first, second[1])

\* Resolving the tables or compiling the message may still raise.
BuildTx(raw) ==
    /\ swStage = "fetchB"
    /\ swRaw' = Append(swRaw, raw)
    /\ \/ swStage' = "raised" /\ UNCHANGED swTx
       \/ /\ swStage' = "built"
          /\ swTx' = [instructions |-> Instructions, alts |-> AltKeys]
    /\ UNCHANGED <<swLegs, swAsked, swQuoted>>

SwNext ==
    \/ SwRaises
    \/ \E a, b \in Legs, out \in OutAmounts : QuoteFirst(a, b, out)
    \/ \E out \in OutAmounts : QuoteSecond(out)
    \/ \E raw \in RawAnswers : FetchFirst(raw) \/ BuildTx(raw)

Step == [budget |-> 1, setup |-> 2, swap |-> 3, cleanup |-> 4]

\* The place of an instruction: leg A before leg B, within a leg in its steps.
Turn(instruction) == 4 * instruction.leg + Step[instruction.kind]

\* What the answers give for the transaction: all but leg B's compute budget.
Given == {[leg |-> leg, kind |-> kind] : leg \in {1, 2}, kind \in DOMAIN Step}
Wanted == {x \in Given : swRaw[x.leg][x.kind] /\ x # [leg |-> 2, kind |-> "budget"]}

\* A transaction that was built chains its legs and leaves out nothing of them:
\* leg B spends, in the token leg A yields, exactly what leg A was quoted to
\* yield; each leg is restricted to the DEXes of its own venue; every instruction
\* of either answer is there exactly once, leg B's compute budget excepted, and in
\* its place, so that leg A has cleaned up before leg B sets up and one budget
\* header comes first; and every lookup table of either is named once.
LegsChain ==
    swStage = "built" =>
        /\ swAsked[2].amount = swQuoted[1] /\ swAsked[2].from = swAsked[1].to
        /\ \A i \in 1 .. 2 : swAsked[i].dexes = Dexes(swLegs[i].venue)
        /\ ToSet(swTx.instructions) = Wanted
        /\ \A i, j \in DOMAIN swTx.instructions :
              i < j => Turn(swTx.instructions[i]) < Turn(swTx.instructions[j])
        /\ ToSet(swTx.alts) = UNION {ToSet(swRaw[i].alts) : i \in 1 .. 2} /\ IsInjective(swTx.alts)
=============================================================================
