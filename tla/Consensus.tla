----------------------------- MODULE Consensus -----------------------------
(***************************************************************************)
(* The arithmetic every node must agree on: the proof-of-work target of a  *)
(* block, the subsidy of an interval and the split of the fees.            *)
(*                                                                         *)
(* A Hash256 is a sequence of digits, the most significant one first: 32   *)
(* bytes in the code, Width digits of base Base here, because the long     *)
(* division and the carries of the code go digit by digit.  Seconds and    *)
(* percentages have their real values; amounts of money are small.         *)
(***************************************************************************)
EXTENDS Integers, Sequences, FiniteSets, SequencesExt

CONSTANTS
    Base, Width,    \* 256 and 32
    Window,         \* BLOCK_TIME_V2_MEDIAN_WINDOW
    Activation,     \* block_time_v2_activation_height
    Issuance,       \* BLQ_ISSUANCE_PER_INTERVAL_BIX
    GasLimit        \* gas_limit of every header

(***************************************************************************)
(* NodeConfig::load accepts every activation height above 0.  With 1 the   *)
(* first block after genesis would have no interval to take a median of,   *)
(* and difficulty_history_intervals_with_lookup would read past the end of *)
(* an empty vector.                                                        *)
(***************************************************************************)
ASSUME ConsensusAssumption ==
    /\ Base \in Nat \ {0, 1} /\ Width \in Nat \ {0} /\ Window \in Nat \ {0}
    /\ Activation \in Nat \ {0, 1}
    /\ Issuance \in Nat /\ GasLimit \in Nat

MinAcceptable == 15      \* MIN_ACCEPTABLE_BLOCK_TIME_SECONDS
MaxAcceptable == 45      \* MAX_ACCEPTABLE_BLOCK_TIME_SECONDS
MaxAdjustment == 25      \* MAX_DIFFICULTY_ADJUSTMENT_PERCENT
TargetSeconds == 15      \* BLOCK_TIME_V2_TARGET_SECONDS
FastMedian == 3          \* BLOCK_TIME_V2_FAST_MEDIAN_SECONDS
SlowInterval == 60       \* BLOCK_TIME_V2_SLOW_INTERVAL_SECONDS
MaxRewardInterval == 120 \* MAX_REWARD_INTERVAL_SECONDS
MaxUtilization == 10000  \* MAX_UTILIZATION_BASIS_POINTS

Hash == [1..Width -> 0..(Base - 1)]
Highest == [i \in 1..Width |-> Base - 1]

AtMost(a, b) == IF a < b THEN a ELSE b
AtLeast(a, b) == IF a > b THEN a ELSE b

-----------------------------------------------------------------------------
(* Scaling a target.                                                       *)

(***************************************************************************)
(* divide_hash_with_remainder: long division, digit by digit.              *)
(***************************************************************************)
Divide(hash, divisor) ==
    LET Digit(acc, digit) ==
            LET value == acc.remainder * Base + digit
            IN  [out |-> Append(acc.out, value \div divisor),
                 remainder |-> value % divisor]
    IN  FoldLeft(Digit, [out |-> <<>>, remainder |-> 0], hash)

(***************************************************************************)
(* One pass from the last digit to the first; what is carried out of the   *)
(* first digit makes the result the highest hash.                          *)
(***************************************************************************)
Carried(Digit(_, _), hash, carry) ==
    LET r == FoldRight(Digit, hash, [out |-> <<>>, carry |-> carry])
    IN  IF r.carry > 0 THEN Highest ELSE r.out

\* multiply_hash_u64
Multiply(hash, multiplier) ==
    LET Digit(digit, acc) ==
            LET value == digit * multiplier + acc.carry
            IN  [out |-> <<value % Base>> \o acc.out, carry |-> value \div Base]
    IN  Carried(Digit, hash, 0)

\* The loop at the end of scale_target and of scale_target_fraction.
AddCarry(hash, carry) ==
    LET Digit(digit, acc) ==
            LET value == digit + (acc.carry % Base)
            IN  [out |-> <<value % Base>> \o acc.out,
                 carry |-> (acc.carry \div Base) + (value \div Base)]
    IN  Carried(Digit, hash, carry)

\* A bug: the remainder of the division is dropped.
ScaleDropsRemainder(target, numerator, denominator) ==
    Multiply(Divide(target, denominator).out, numerator)

\* scale_target_fraction, and scale_target for a denominator above 0
Scale(target, numerator, denominator) ==
    LET d == Divide(target, denominator)
    IN  AddCarry(Multiply(d.out, numerator), (d.remainder * numerator) \div denominator)

-----------------------------------------------------------------------------
(* The target of the next block.  A chain is a sequence of blocks with the *)
(* fields time and target; chain[1] is genesis, so the block that follows  *)
(* chain has height Len(chain).                                            *)

\* next_block_difficulty_target
NextTarget(target, seconds) ==
    IF seconds \in MinAcceptable..MaxAcceptable THEN target
    ELSE Scale(target,
               IF seconds > MaxAcceptable THEN 100 + MaxAdjustment ELSE 100 - MaxAdjustment,
               100)

(***************************************************************************)
(* next_block_difficulty_target_v2.  The caps are 17/16 and 15/16 of the   *)
(* target in normal times, 9/8 after a slow block, 3/4 after a run of fast *)
(* ones.                                                                   *)
(***************************************************************************)
NextTargetV2(target, median, latest) ==
    LET numerator == median * 16
        denominator == TargetSeconds * 16
    IN  CASE median < FastMedian -> Scale(target, 75, 100)
          [] median >= FastMedian /\ latest >= SlowInterval -> Scale(target, 9, 8)
          [] OTHER ->
               IF numerator * 16 < denominator * 15 THEN Scale(target, 15, 16)
               ELSE IF numerator * 16 > denominator * 17 THEN Scale(target, 17, 16)
               ELSE Scale(target, numerator, denominator)

\* difficulty_history_headers_with_lookup and the intervals between them
Intervals(chain) ==
    LET first == AtLeast(1, Len(chain) - Window)
    IN  [i \in 1..(Len(chain) - first) |->
            AtLeast(1, chain[first + i].time - chain[first + i - 1].time)]

\* difficulty_history_intervals_with_lookup
Median(intervals) == SortSeq(intervals, <)[(Len(intervals) \div 2) + 1]

\* expected_difficulty_target_with_lookup, for the block that follows chain
ExpectedTarget(chain, time) ==
    LET parent == Last(chain)
        intervals == Intervals(chain)
    IN  IF Len(chain) >= Activation
        THEN NextTargetV2(parent.target, Median(intervals), Last(intervals))
        ELSE NextTarget(parent.target, AtLeast(1, time - parent.time))

-----------------------------------------------------------------------------
(* Issuance and fees.  A body has the field native, true if no transaction *)
(* of the block needs the EVM, and the field txs, a sequence of            *)
(* transactions with the gas they use and the effective price they pay.    *)

\* block_reward_for_interval_bix
Reward(parentTime, time) ==
    (Issuance * AtMost(time - parentTime, MaxRewardInterval)) \div 600

Total(s) == FoldLeft(+, 0, s)
GasUsed(body) == Total([i \in DOMAIN body.txs |-> body.txs[i].gas])
Fees(body) == [i \in DOMAIN body.txs |-> body.txs[i].gas * body.txs[i].price]

\* utilization_basis_points and fee_split_for_utilization
BurnPercent(gas) ==
    LET utilization == IF GasLimit = 0 THEN 0 ELSE (gas * MaxUtilization) \div GasLimit
    IN  5 + ((35 * AtMost(utilization, MaxUtilization)) \div MaxUtilization)

\* FeeSplit::split_fee: what the miner gets of a fee
MinerPart(fee, percent) == fee - ((fee * percent) \div 100)

(***************************************************************************)
(* What the miner is paid: the native path splits each fee, the EVM path   *)
(* the sum of them.                                                        *)
(***************************************************************************)
MinerFees(body) ==
    LET percent == BurnPercent(GasUsed(body))
        fees == Fees(body)
    IN  IF body.native THEN Total([i \in DOMAIN fees |-> MinerPart(fees[i], percent)])
        ELSE MinerPart(Total(fees), percent)

\* A bug: the burn is taken from what is left after the miner's part of each fee.
DeltaSplitsTwice(parentTime, time, body) ==
    LET fees == Total(Fees(body))
        percent == BurnPercent(GasUsed(body))
    IN  [subsidy |-> Reward(parentTime, time),
         burned |-> (MinerPart(fees, percent) * percent) \div 100]

\* block_supply_delta
SupplyDelta(parentTime, time, body) ==
    LET fees == Total(Fees(body))
    IN  [subsidy |-> Reward(parentTime, time),
         burned |-> fees - MinerPart(fees, BurnPercent(GasUsed(body)))]

=============================================================================
