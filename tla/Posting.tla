------------------------------ MODULE Posting ------------------------------
(***************************************************************************)
(* The one writer of the ledger, post_entry, with conserve_shares, which   *)
(* completes the lines of a fill (backend/ledger/services.py), in front of *)
(* what Postgres checks by itself: the CHECK constraints of JournalLine    *)
(* and the two deferred triggers that judge an entry at COMMIT             *)
(* (migrations 0002 and 0009).                                             *)
(*                                                                         *)
(* Callers hand over raw decimals. Amounts and quantities are integers     *)
(* here, Fine of them to one stored quantum.                               *)
(***************************************************************************)
EXTENDS Integers, Sequences, SequencesExt, FiniteSets, Functions, Money

CONSTANTS
    Accounts,
    Instruments, NoInstrument,
    InstrumentOf,   \* the instrument of a position or contra, or NoInstrument
    Assets,         \* the accounts of type ASSET: cash and positions
    Dollars,        \* the accounts held in USD
    ContraOf,       \* the shares-outstanding account of each instrument
    NoQuantity,     \* the NULL quantity of a line that moves money only
    Fine,           \* raw units in one quantum
    Requests        \* the lists of lines callers may build

Line == [account : Accounts, amount : Int, quantity : Int \cup {NoQuantity}]

ASSUME AccountsAssumption ==
    /\ IsFiniteSet(Instruments)
    /\ Assets \subseteq Accounts /\ Dollars \subseteq Accounts
    /\ NoInstrument \notin Instruments
    /\ InstrumentOf \in [Accounts -> Instruments \cup {NoInstrument}]
    /\ ContraOf \in [Instruments -> (Accounts \cap Dollars) \ Assets]
    /\ \A i \in Instruments : InstrumentOf[ContraOf[i]] = i

ASSUME LinesAssumption ==
    /\ NoQuantity \notin Int
    /\ Fine \in Nat \ {0}
    /\ Requests \subseteq Seq(Line)

VARIABLES
    lines,      \* the lines in the caller's hands
    stage       \* what has become of them

vars == <<lines, stage>>

-----------------------------------------------------------------------------
(* What post_entry stores.                                                 *)

StoredQuantity(q) == IF q = NoQuantity THEN NoQuantity ELSE RoundHalfEven(q, Fine)

Stored(l) == [account |-> l.account, amount |-> RoundHalfEven(l.amount, Fine),
              quantity |-> StoredQuantity(l.quantity)]

Rows(ls) == [n \in DOMAIN ls |-> Stored(ls[n])]

Instrument(l) == InstrumentOf[l.account]
IsPosition(l) == Instrument(l) # NoInstrument

-----------------------------------------------------------------------------
(* conserve_shares: for every instrument that moved in a holding, one leg  *)
(* on its contra account that moves as many shares back for no money.      *)

(* Mutant: quantities are truncated where post_entry rounds them.          *)
MovedTruncated(ls) ==
    FoldLeft(LAMBDA moved, l :
                 IF l.quantity = NoQuantity \/ l.account \notin Assets \/ ~IsPosition(l)
                 THEN moved
                 ELSE [moved EXCEPT ![Instrument(l)] = @ + l.quantity \div Fine],
             [i \in Instruments |-> 0], ls)

(* The dict the function accumulates, line by line.                        *)
MovedShares(ls) ==
    FoldLeft(LAMBDA moved, l :
                 IF l.quantity = NoQuantity \/ l.account \notin Assets \/ ~IsPosition(l)
                 THEN moved
                 ELSE [moved EXCEPT ![Instrument(l)] = @ + StoredQuantity(l.quantity)],
             [i \in Instruments |-> 0], ls)

ContraLeg(i, net) == [account |-> ContraOf[i], amount |-> 0, quantity |-> -net * Fine]

ConserveShares(ls) ==
    LET moved == MovedShares(ls)
        leg(i) == ContraLeg(i, moved[i])
    IN  ls \o SetToSeq({leg(i) : i \in {j \in Instruments : moved[j] # 0}})

-----------------------------------------------------------------------------
(* The validation of post_entry, over the quantized lines.                 *)

Moves(r) == ~(r.amount = 0 /\ r.quantity = NoQuantity)

QuantityFits(r) ==
    /\ IsPosition(r) <=> r.quantity # NoQuantity
    /\ r.quantity # 0

NetAmount(rows) == FoldLeft(LAMBDA total, r : total + r.amount, 0, rows)

(* Mutant: shares of all instruments are added up.                         *)
NetSharesFlat(rows) ==
    [i \in Instruments \cup {NoInstrument} |->
        FoldLeft(LAMBDA total, r :
                     IF r.quantity = NoQuantity THEN total ELSE total + r.quantity,
                 0, rows)]

NetShares(rows) ==
    FoldLeft(LAMBDA moved, r :
                 IF r.quantity = NoQuantity THEN moved
                 ELSE [moved EXCEPT ![Instrument(r)] = @ + r.quantity],
             [i \in Instruments \cup {NoInstrument} |-> 0], rows)

Accepted(rows) ==
    /\ Len(rows) >= 2
    /\ \A n \in DOMAIN rows :
         Moves(rows[n]) /\ rows[n].account \in Dollars /\ QuantityFits(rows[n])
    /\ NetAmount(rows) = 0
    /\ \A i \in Instruments : NetShares(rows)[i] = 0

-----------------------------------------------------------------------------
(* What Postgres refuses. SUM skips NULLs, and the group of the accounts   *)
(* without an instrument is judged like the others.                        *)

ChecksHold(rows) ==
    \A n \in DOMAIN rows : Moves(rows[n]) /\ rows[n].quantity # 0

EntryBalanced(rows) ==
    SumFunction([n \in DOMAIN rows |-> rows[n].amount]) = 0

EntryConservesShares(rows) ==
    LET group(i) == {n \in DOMAIN rows :
                        Instrument(rows[n]) = i /\ rows[n].quantity # NoQuantity}
    IN  \A i \in Instruments \cup {NoInstrument} :
            SumFunction([n \in group(i) |-> rows[n].quantity]) = 0

CommitSucceeds(rows) ==
    ChecksHold(rows) /\ EntryBalanced(rows) /\ EntryConservesShares(rows)

-----------------------------------------------------------------------------
Init ==
    /\ lines \in Requests
    /\ stage = "built"

(* A fill builder completes its lines; a transfer posts them as they are.  *)
Conserve ==
    /\ stage = "built"
    /\ lines' = ConserveShares(lines)
    /\ stage' = "conserved"

Post ==
    /\ stage \in {"built", "conserved"}
    /\ stage' = IF ~Accepted(Rows(lines)) THEN "refused"
                ELSE IF CommitSucceeds(Rows(lines)) THEN "posted" ELSE "aborted"
    /\ UNCHANGED lines

Next == Conserve \/ Post

Spec == Init /\ [][Next]_vars

-----------------------------------------------------------------------------
(* Properties.                                                             *)

(* post_entry never lets an entry through that Postgres refuses at COMMIT: *)
(* what goes wrong is "a domain error raised from the frame that built the *)
(* lines", whatever the rounding of each line did to the totals.           *)
ServiceForesees == stage # "aborted"

(* The lines of a fill before its contra legs: of the right shape, and     *)
(* balanced in money.                                                      *)
IsFill(rows) ==
    /\ Len(rows) >= 2
    /\ \A n \in DOMAIN rows :
         /\ Moves(rows[n]) /\ rows[n].account \in Dollars /\ QuantityFits(rows[n])
         /\ IsPosition(rows[n]) => rows[n].account \in Assets
    /\ NetAmount(rows) = 0

(* conserve_shares completes every fill: whatever holdings and instruments *)
(* it moves, with raw quantities that do not round alike, post_entry takes *)
(* the result.                                                             *)
CompletedFillIsAccepted ==
    [][stage = "built" /\ stage' = "conserved" /\ IsFill(Rows(lines))
         => Accepted(Rows(lines'))]_vars
=============================================================================
