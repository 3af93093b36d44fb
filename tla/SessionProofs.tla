---------------------------- MODULE SessionProofs ----------------------------
(***************************************************************************)
(* The status and the traps of a session, for any values, any contexts and *)
(* scripts of any length: no arithmetic, no setdefault and no setter ever  *)
(* enables a trap or loses a recorded condition; and every sum, difference *)
(* or product it computes is the exact one, rounded once.                  *)
(***************************************************************************)
EXTENDS ManipulationCorrect, RoundingProofs, TLAPS

\* The context keeps its fields and never gains a trap.
NoTraps == dc = [ f \in Fields |-> dc[f] ] /\ dc.traps = {}

\* A call that records conditions loses none and enables no trap.
LEMMA OrStatus ==
  ASSUME NEW flags, dc' = SetStatus(dc, flags), NoTraps
  PROVE  /\ NoTraps'
         /\ dc.status \subseteq dc'.status
  BY DEF NoTraps, Fields, SetStatus

\* Every arithmetic call only records conditions.
LEMMA CallStatus ==
  ASSUME Call1 \/ Call2 \/ Call3 \/ Convert \/ Relate, NoTraps
  PROVE  /\ NoTraps'
         /\ dc.status \subseteq dc'.status
<1>1. ASSUME NEW op, NEW rhs, NEW fhs, NEW flags, NEW res,
             Return(op, rhs, fhs, flags, res)
      PROVE  /\ NoTraps' /\ dc.status \subseteq dc'.status
  <2>1. dc' = SetStatus(dc, flags \cup res.status)
    BY <1>1 DEF Return
  <2> QED BY <2>1, OrStatus
<1>2. CASE Call1
  BY <1>1, <1>2 DEF Call1
<1>3. CASE Call2
  BY <1>1, <1>3 DEF Call2
<1>4. CASE Call3
  BY <1>1, <1>4 DEF Call3
<1>5. CASE Relate
  <2>1. PICK flags : dc' = SetStatus(dc, flags)
    BY <1>5 DEF Relate
  <2> QED BY <2>1, OrStatus
<1>6. CASE Convert
  <2>1. PICK flags : dc' = SetStatus(dc, flags)
    BY <1>6 DEF Convert
  <2> QED BY <2>1, OrStatus
<1> QED BY <1>2, <1>3, <1>4, <1>5, <1>6

\* No default context that setdefault installs has a trap enabled.
LEMMA DefaultHasNoTraps ==
  ASSUME NEW kind \in KnownKinds
  PROVE  /\ DefaultFor(kind) = [ f \in Fields |-> DefaultFor(kind)[f] ]
         /\ DefaultFor(kind).traps = {}
  BY DEF KnownKinds, DefaultFor, ContextDefault, Context, Fields

\* No step of a session enables a trap.
LEMMA NoTrapsNext == NoTraps /\ [Next]_vars => NoTraps'
<1> SUFFICES ASSUME NoTraps, [Next]_vars PROVE NoTraps'
  OBVIOUS
<1>1. ASSUME Call1 \/ Call2 \/ Call3 \/ Convert \/ Relate PROVE NoTraps'
  BY <1>1, CallStatus
<1>2. ASSUME Set PROVE NoTraps'
  <2>1. PICK setting \in Settings :
          /\ InRange(setting[1], setting[2])
          /\ dc' = [ dc EXCEPT ![setting[1]] = setting[2] ]
    BY <1>2 DEF Set
  <2>2. setting[1] \in Fields
    BY SessionAssumption
  <2>3. CASE setting[1] = "traps"
    <3>1. setting[2] = {}
      BY <2>1, <2>3 DEF InRange
    <3> QED BY <2>1, <2>3, <3>1 DEF NoTraps, Fields
  <2>4. CASE setting[1] # "traps"
    BY <2>1, <2>2, <2>4 DEF NoTraps, Fields
  <2> QED BY <2>3, <2>4
<1>3. ASSUME SetDefault PROVE NoTraps'
  BY <1>3, DefaultHasNoTraps DEF SetDefault, NoTraps, KnownKinds
<1>4. ASSUME SetStatusString PROVE NoTraps'
  BY <1>4 DEF SetStatusString, SetStatus, NoTraps, Fields
<1>5. ASSUME UNCHANGED dc PROVE NoTraps'
  BY <1>5 DEF NoTraps
<1> QED BY <1>1, <1>2, <1>3, <1>4, <1>5 DEF Next, vars, SetFails, Ask

\* No trap is ever enabled.
THEOREM TrapsStayOff == Spec => []NoTraps
<1>1. Init => NoTraps
  BY SessionAssumption DEF Init, NoTraps
<1> QED BY <1>1, NoTrapsNext, PTL DEF Spec

\* SIGFPE is never raised, whatever a script does: there is no handler for it.
THEOREM SessionNeverRaises == Spec => NeverRaises
<1>1. NoTraps /\ NoTraps' =>
        [ (dc'.status \ dc.status) \cap (dc.traps \cup dc'.traps) = {} ]_vars
  BY DEF NoTraps
<1> QED BY <1>1, TrapsStayOff, PTL DEF NeverRaises

\* A step that is not a setter of the context keeps the recorded conditions.
LEMMA StickyNext ==
  NoTraps /\ [Next]_vars =>
    [ \/ dc.status \subseteq dc'.status
      \/ last'.op = "setdefault"
      \/ last'.op = "set" /\ last'.arg[1] = "status" ]_vars
<1> SUFFICES ASSUME NoTraps, Next
             PROVE  \/ dc.status \subseteq dc'.status
                    \/ last'.op = "setdefault"
                    \/ last'.op = "set" /\ last'.arg[1] = "status"
  OBVIOUS
<1>1. CASE Call1 \/ Call2 \/ Call3 \/ Convert \/ Relate
  BY <1>1, CallStatus
<1>2. CASE Set
  <2>1. PICK setting \in Settings :
          /\ Method("set", setting)
          /\ dc' = [ dc EXCEPT ![setting[1]] = setting[2] ]
    BY <1>2 DEF Set
  <2>2. last' = [ op |-> "set", arg |-> setting ]
    BY <2>1 DEF Method
  <2>3. CASE setting[1] # "status"
    <3>1. dc'.status = dc.status
      BY <2>1, <2>3, SessionAssumption DEF NoTraps, Fields
    <3> QED BY <3>1
  <2> QED BY <2>2, <2>3
<1>3. CASE SetDefault
  BY <1>3 DEF SetDefault, Method
<1>4. CASE SetStatusString
  BY <1>4 DEF SetStatusString, SetStatus, NoTraps, Fields
<1>5. CASE SetFails \/ Ask
  BY <1>5 DEF SetFails, Ask
<1> QED BY <1>1, <1>2, <1>3, <1>4, <1>5 DEF Next

\* No recorded condition is lost, except by the two methods that say so.
THEOREM SessionStatusIsSticky == Spec => StatusIsSticky
  BY TrapsStayOff, StickyNext, PTL DEF Spec, StatusIsSticky

----------------------------------------------------------------------------
(* The ranges of the context.                                              *)

\* Status that is or-ed in leaves the ranges as they are.
LEMMA RangedStatus ==
  ASSUME NEW flags, dc' = SetStatus(dc, flags), NoTraps, Ranged(dc)
  PROVE  Ranged(dc)'
<1>1. dc = [ f \in Fields |-> dc[f] ]
  BY DEF NoTraps
<1>2. /\ dc'.digits = dc.digits /\ dc'.emax = dc.emax /\ dc'.emin = dc.emin
      /\ dc'.round = dc.round /\ dc'.clamp = dc.clamp
  BY <1>1 DEF Fields, SetStatus
<1> QED BY <1>2 DEF Ranged

\* Every kind of default is within the ranges.
LEMMA DefaultIsRanged ==
  ASSUME NEW kind \in KnownKinds
  PROVE  Ranged(DefaultFor(kind))
<1>1. /\ DECNUMDIGITS \in Nat /\ DECNUMDIGITS >= 34
      /\ DEC_MAX_EMAX \in Nat /\ 6144 \in 0..DEC_MAX_EMAX
      /\ DEC_MIN_EMIN \in Int /\ DEC_MIN_EMIN <= -6143
  BY SessionAssumption
<1>2. CASE kind = "BASE"
  <2> DEFINE base == Context(9, DEC_MAX_EMAX, DEC_MIN_EMIN, "HALF_UP", 0, DEC_Errors)
  <2>1. ContextDefault(kind) = base
    BY <1>2 DEF ContextDefault
  <2>2. DefaultFor(kind) = [ base EXCEPT !.traps = {} ]
    BY <1>2, <2>1 DEF DefaultFor
  <2>3. Ranged([ base EXCEPT !.traps = {} ])
    BY <1>1, SMT DEF Context, Ranged, Roundings
  <2> QED BY <2>2, <2>3
<1>3. CASE kind = "DECIMAL32"
  <2>1. DefaultFor(kind) = Context(7, 96, -95, "HALF_EVEN", 1, {})
    BY <1>3 DEF DefaultFor, ContextDefault
  <2> QED BY <1>1, <2>1, SMT DEF Context, Ranged, Roundings
<1>4. CASE kind = "DECIMAL64"
  <2>1. DefaultFor(kind) = Context(16, 384, -383, "HALF_EVEN", 1, {})
    BY <1>4 DEF DefaultFor, ContextDefault
  <2> QED BY <1>1, <2>1, SMT DEF Context, Ranged, Roundings
<1>5. CASE kind = "DECIMAL128"
  <2>1. DefaultFor(kind) = Context(34, 6144, -6143, "HALF_EVEN", 1, {})
    BY <1>5 DEF DefaultFor, ContextDefault
  <2> QED BY <1>1, <2>1, SMT DEF Context, Ranged, Roundings
<1> QED BY <1>2, <1>3, <1>4, <1>5 DEF KnownKinds

\* A setter changes one field, to a value its range check let through.
LEMMA SetIsRanged ==
  ASSUME Set, NoTraps, Ranged(dc)
  PROVE  Ranged(dc)'
<1>1. PICK setting \in Settings :
        /\ InRange(setting[1], setting[2])
        /\ dc' = [ dc EXCEPT ![setting[1]] = setting[2] ]
  BY DEF Set
<1> DEFINE field == setting[1]
           val == setting[2]
<1>2. /\ InRange(field, val) /\ dc' = [ dc EXCEPT ![field] = val ] /\ field \in Fields
      /\ dc = [ f \in Fields |-> dc[f] ]
  BY <1>1, SessionAssumption DEF NoTraps
<1> HIDE DEF field, val
<1>3. /\ dc'.digits = IF field = "digits" THEN val ELSE dc.digits
      /\ dc'.emax = IF field = "emax" THEN val ELSE dc.emax
      /\ dc'.emin = IF field = "emin" THEN val ELSE dc.emin
      /\ dc'.round = IF field = "round" THEN val ELSE dc.round
      /\ dc'.clamp = IF field = "clamp" THEN val ELSE dc.clamp
  BY <1>2 DEF Fields
<1>4. /\ field = "digits" => val \in 1..DECNUMDIGITS
      /\ field = "emax" => val \in 0..DEC_MAX_EMAX
      /\ field = "emin" => val \in DEC_MIN_EMIN..0
      /\ field = "round" => val \in Roundings
      /\ field = "clamp" => val \in {0, 1}
  <2>1. ASSUME field = "digits" PROVE val \in 1..DECNUMDIGITS
    BY <1>2, <2>1, SMT DEF InRange
  <2>2. ASSUME field = "emax" PROVE val \in 0..DEC_MAX_EMAX
    BY <1>2, <2>2, SMT DEF InRange
  <2>3. ASSUME field = "emin" PROVE val \in DEC_MIN_EMIN..0
    BY <1>2, <2>3, SMT DEF InRange
  <2>4. ASSUME field = "round" PROVE val \in Roundings
    BY <1>2, <2>4, SMT DEF InRange
  <2>5. ASSUME field = "clamp" PROVE val \in {0, 1}
    BY <1>2, <2>5, SMT DEF InRange
  <2> QED BY <2>1, <2>2, <2>3, <2>4, <2>5
<1> QED BY <1>3, <1>4 DEF Ranged

\* Whatever a script does, its context keeps a precision a number has room for,
\* exponents the library can take and a rounding mode there is: by the setters'
\* checks, the kinds of default, and since a call only ors into the status.
THEOREM ContextStaysInRange == Spec => []Ranged(dc)
<1>1. Init => Ranged(dc)
  BY SessionAssumption DEF Init
<1>2. NoTraps /\ Ranged(dc) /\ [Next]_vars => Ranged(dc)'
  <2> SUFFICES ASSUME NoTraps, Ranged(dc), [Next]_vars PROVE Ranged(dc)'
    OBVIOUS
  <2>1. CASE Call1 \/ Call2 \/ Call3 \/ Convert \/ Relate
    <3>1. \E flags : dc' = SetStatus(dc, flags)
      BY <2>1 DEF Call1, Call2, Call3, Convert, Relate, Return
    <3> QED BY <3>1, RangedStatus
  <2>2. CASE Set
    BY <2>2, SetIsRanged
  <2>3. CASE SetDefault
    BY <2>3, DefaultIsRanged DEF SetDefault
  <2>4. CASE SetStatusString
    BY <2>4, RangedStatus DEF SetStatusString
  <2>5. CASE UNCHANGED dc
    BY <2>5 DEF Ranged
  <2> QED BY <2>1, <2>2, <2>3, <2>4, <2>5 DEF Next, vars, SetFails, Ask
<1> QED BY <1>1, <1>2, TrapsStayOff, PTL DEF Spec

----------------------------------------------------------------------------
(* The results of a session.                                               *)

\* The contexts that differ at most in traps and status.
Alike(set, other) ==
  /\ set.digits = other.digits /\ set.emax = other.emax /\ set.emin = other.emin
  /\ set.round = other.round /\ set.clamp = other.clamp

\* The status a context holds has no say in how a number is rounded.
LEMMA RoundedAlike ==
  ASSUME NEW set, NEW other, Alike(set, other), NEW neg, NEW n, NEW e
  PROVE  RoundedOnce(neg, n, e, set) = RoundedOnce(neg, n, e, other)
<1>1. Etiny(set) = Etiny(other) /\ Etop(set) = Etop(other)
  BY DEF Alike, Etiny, Etop
<1>2. ZeroResult(neg, e, set) = ZeroResult(neg, e, other)
  BY <1>1, Zenon DEF Alike, ZeroResult
<1>3. Excess(n, e, set) = Excess(n, e, other)
  BY <1>1, Zenon DEF Alike, Excess
<1>4. ASSUME NEW c, NEW exp PROVE Folded(neg, c, exp, set) = Folded(neg, c, exp, other)
  BY <1>1, Zenon DEF Alike, Folded
<1>5. Overflowed(neg, set) = Overflowed(neg, other)
  BY <1>1, Zenon DEF Alike, Overflowed
<1>6. ASSUME NEW drop PROVE Loss(n, e, drop, set) = Loss(n, e, drop, other)
  BY Zenon DEF Alike, Loss
<1>7. ASSUME NEW c, NEW exp, NEW loss
      PROVE  Placed(neg, c, exp, loss, set) = Placed(neg, c, exp, loss, other)
  BY <1>4, <1>5, Zenon DEF Alike, Placed
<1>8. NonZeroResult(neg, n, e, set) = NonZeroResult(neg, n, e, other)
  <2>1. set.round = other.round
    BY DEF Alike
  <2>2. PICK drop, c, exp :
             /\ drop = Excess(n, e, set) /\ exp = e + drop
             /\ c = (n \div Power(n, drop))
                    + (IF RoundsAway(neg, n, drop, set.round) THEN 1 ELSE 0)
    BY Zenon
  <2>3. NonZeroResult(neg, n, e, set) = Placed(neg, c, exp, Loss(n, e, drop, set), set)
    BY <2>2, Zenon DEF NonZeroResult
  <2>4. NonZeroResult(neg, n, e, other) = Placed(neg, c, exp, Loss(n, e, drop, other), other)
    BY <1>3, <2>1, <2>2, Zenon DEF NonZeroResult
  <2>5. Loss(n, e, drop, set) = Loss(n, e, drop, other)
    BY <1>6
  <2>6. Placed(neg, c, exp, Loss(n, e, drop, other), set)
          = Placed(neg, c, exp, Loss(n, e, drop, other), other)
    BY <1>7
  <2> QED BY <2>3, <2>4, <2>5, <2>6
<1> QED BY <1>2, <1>8, Zenon DEF RoundedOnce

\* Nor in the references.
LEMMA ReferencesAlike ==
  ASSUME NEW set, NEW other, Alike(set, other), NEW lhs, NEW rhs
  PROVE  /\ SumReference(lhs, rhs, set) = SumReference(lhs, rhs, other)
         /\ ProductReference(lhs, rhs, set) = ProductReference(lhs, rhs, other)
<1>1. ASSUME NEW neg, NEW n, NEW e
      PROVE  RoundedOnce(neg, n, e, set) = RoundedOnce(neg, n, e, other)
  BY RoundedAlike
<1>2. SumReference(lhs, rhs, set) = SumReference(lhs, rhs, other)
  <2> DEFINE e == Smaller(lhs.exponent, rhs.exponent)
             sum == At(lhs, e) + At(rhs, e)
             neg(round) == CASE sum # 0 -> sum < 0
                             [] sum = 0 /\ lhs.neg = rhs.neg -> lhs.neg
                             [] sum = 0 /\ lhs.neg # rhs.neg -> round = "FLOOR"
             n == IF sum < 0 THEN -sum ELSE sum
  <2>1. /\ SumReference(lhs, rhs, set) = RoundedOnce(neg(set.round), n, e, set)
        /\ SumReference(lhs, rhs, other) = RoundedOnce(neg(other.round), n, e, other)
    BY Zenon DEF SumReference
  <2>2. set.round = other.round
    BY DEF Alike
  <2>3. RoundedOnce(neg(set.round), n, e, set) = RoundedOnce(neg(set.round), n, e, other)
    BY <1>1, Zenon
  <2> HIDE DEF neg, n, e
  <2> QED BY <2>1, <2>2, <2>3, Zenon
<1>3. ProductReference(lhs, rhs, set) = ProductReference(lhs, rhs, other)
  BY <1>1, Zenon DEF ProductReference
<1> QED BY <1>2, <1>3

\* The contexts of a session are those of the arithmetic's theorems, where they
\* have room.
LEMMA SessionIsRoomy ==
  ASSUME NoTraps, Ranged(dc), HasRoom(dc)
  PROVE  Roomy(dc)
<1>1. dc = [ field \in ContextFields |-> dc[field] ]
  BY DEF NoTraps, Fields, ContextFields
<1>2. DECNUMDIGITS \in Nat /\ DEC_MAX_EMAX \in Nat /\ DEC_MIN_EMIN \in Int
  BY SessionAssumption
<1>3. /\ dc.digits \in Nat /\ dc.digits >= 1 /\ dc.emax \in Nat
      /\ dc.emin \in Int /\ dc.emin <= 0 /\ dc.round \in Roundings /\ dc.clamp \in {0, 1}
  BY <1>2, SMT DEF Ranged
<1> QED BY <1>1, <1>3 DEF Roomy

\* So is the one a call gets, with the status of the conversions or-ed in.
LEMMA SetStatusIsRoomy ==
  ASSUME NEW flags, Roomy(dc)
  PROVE  /\ Alike(SetStatus(dc, flags), dc)
         /\ Roomy(SetStatus(dc, flags))
<1>1. PICK set : set = SetStatus(dc, flags)
  OBVIOUS
<1>2. dc = [ field \in ContextFields |-> dc[field] ]
  BY DEF Roomy
<1>3. /\ set = [ field \in ContextFields |-> set[field] ]
      /\ set.digits = dc.digits /\ set.emax = dc.emax /\ set.emin = dc.emin
      /\ set.round = dc.round /\ set.clamp = dc.clamp
  BY <1>1, <1>2 DEF SetStatus, ContextFields
<1>4. Alike(set, dc)
  BY <1>3 DEF Alike
<1>5. Roomy(set)
  BY <1>3 DEF Roomy, HasRoom, Etop
<1> QED BY <1>1, <1>4, <1>5

\* A call of one operand.
LEMMA Call1IsRounded ==
  ASSUME NEW op \in {"plus", "neg", "abs"}, NEW rhs, IsFinite(rhs),
         NEW set, Roomy(set), NEW other
  PROVE  Apply1(op, rhs, set) = RoundedReference(op, rhs, other, set)
<1>1. Resign(rhs, ~rhs.neg) = Negated(rhs)
  BY DEF Resign, Negated
<1>2. Resign(rhs, FALSE) = [ rhs EXCEPT !.neg = FALSE ]
  BY DEF Resign
<1>3. /\ NumberPlus(rhs, set) = SumReference(ZeroLike(rhs), rhs, set)
      /\ NumberMinus(rhs, set) = SumReference(ZeroLike(rhs), Negated(rhs), set)
      /\ NumberAbs(rhs, set) = SumReference(ZeroLike(rhs), [ rhs EXCEPT !.neg = FALSE ], set)
  <2>1. /\ NumberPlus(rhs, set) = SumReference(ZeroLike(rhs), rhs, set)
        /\ NumberMinus(rhs, set) = SumReference(ZeroLike(rhs), Resign(rhs, ~rhs.neg), set)
        /\ NumberAbs(rhs, set) = SumReference(ZeroLike(rhs), Resign(rhs, FALSE), set)
    BY UnaryIsRounded, Zenon
  <2> QED BY <1>1, <1>2, <2>1, Zenon
<1>4. CASE op = "plus"
  <2>1. Apply1(op, rhs, set) = NumberPlus(rhs, set)
    BY <1>4 DEF Apply1
  <2>2. RoundedReference(op, rhs, other, set) = SumReference(ZeroLike(rhs), rhs, set)
    BY <1>4 DEF RoundedReference
  <2> QED BY <1>3, <2>1, <2>2
<1>5. CASE op = "neg"
  <2>1. Apply1(op, rhs, set) = NumberMinus(rhs, set)
    BY <1>5 DEF Apply1
  <2>2. RoundedReference(op, rhs, other, set) = SumReference(ZeroLike(rhs), Negated(rhs), set)
    BY <1>5 DEF RoundedReference
  <2> QED BY <1>3, <2>1, <2>2
<1>6. CASE op = "abs"
  <2>1. Apply1(op, rhs, set) = NumberAbs(rhs, set)
    BY <1>6 DEF Apply1
  <2>2. RoundedReference(op, rhs, other, set)
          = SumReference(ZeroLike(rhs), [ rhs EXCEPT !.neg = FALSE ], set)
    BY <1>6 DEF RoundedReference
  <2> QED BY <1>3, <2>1, <2>2
<1> QED BY <1>4, <1>5, <1>6

\* A call of two operands.
LEMMA Call2IsRounded ==
  ASSUME NEW op \in {"add", "sub", "mul"}, NEW lhs, IsFinite(lhs), NEW rhs, IsFinite(rhs),
         NEW set, Roomy(set), op \in {"add", "sub"} => Summable(lhs, rhs, set)
  PROVE  Apply2(op, lhs, rhs, set) = RoundedReference(op, lhs, rhs, set)
<1>1. Resign(rhs, ~rhs.neg) = Negated(rhs)
  BY DEF Resign, Negated
<1>2. CASE op = "add"
  <2>1. Summable(lhs, rhs, set)
    BY <1>2
  <2>2. NumberAdd(lhs, rhs, set) = SumReference(lhs, rhs, set)
    BY <2>1, SumIsRounded
  <2>3. Apply2(op, lhs, rhs, set) = NumberAdd(lhs, rhs, set)
    BY <1>2 DEF Apply2
  <2>4. RoundedReference(op, lhs, rhs, set) = SumReference(lhs, rhs, set)
    BY <1>2 DEF RoundedReference
  <2> QED BY <2>2, <2>3, <2>4
<1>3. CASE op = "sub"
  <2>1. Summable(lhs, rhs, set)
    BY <1>3
  <2>2. NumberSubtract(lhs, rhs, set) = SumReference(lhs, Negated(rhs), set)
    BY <1>1, <2>1, SumIsRounded
  <2>3. Apply2(op, lhs, rhs, set) = NumberSubtract(lhs, rhs, set)
    BY <1>3 DEF Apply2
  <2>4. RoundedReference(op, lhs, rhs, set) = SumReference(lhs, Negated(rhs), set)
    BY <1>3 DEF RoundedReference
  <2> QED BY <2>2, <2>3, <2>4
<1>4. CASE op = "mul"
  <2>1. NumberMultiply(lhs, rhs, set) = ProductReference(lhs, rhs, set)
    BY ProductIsRounded
  <2>2. Apply2(op, lhs, rhs, set) = NumberMultiply(lhs, rhs, set)
    BY <1>4 DEF Apply2
  <2>3. RoundedReference(op, lhs, rhs, set) = ProductReference(lhs, rhs, set)
    BY <1>4 DEF RoundedReference
  <2> QED BY <2>1, <2>2, <2>3
<1> QED BY <1>2, <1>3, <1>4

\* A number and a status.
IsResult(res) == res = [ dn |-> res.dn, status |-> res.status ]

\* It is what decStatus leaves of an operation.
LEMMA StatusIsResult ==
  ASSUME NEW w
  PROVE  IsResult(Status(w))
<1>1. PICK dn, status : Status(w) = [ dn |-> dn, status |-> status ]
  BY Zenon DEF Status
<1> QED BY <1>1 DEF IsResult

\* The operations of one operand return one,
LEMMA Apply1Returns ==
  ASSUME NEW op \in {"plus", "neg", "abs"}, NEW rhs, NEW set
  PROVE  IsResult(Apply1(op, rhs, set))
<1>1. CASE op = "plus"
  <2>1. PICK w : w = AddOp(ZeroLike(rhs), rhs, set, FALSE)
    BY Zenon
  <2>2. Apply1(op, rhs, set) = Status(w)
    BY <1>1, <2>1 DEF Apply1, NumberPlus
  <2> QED BY <2>2, StatusIsResult
<1>2. CASE op = "neg"
  <2>1. PICK w : w = AddOp(ZeroLike(rhs), rhs, set, TRUE)
    BY Zenon
  <2>2. Apply1(op, rhs, set) = Status(w)
    BY <1>2, <2>1 DEF Apply1, NumberMinus
  <2> QED BY <2>2, StatusIsResult
<1>3. CASE op = "abs"
  <2>1. PICK w : w = AddOp(ZeroLike(rhs), rhs, set, rhs.neg)
    BY Zenon
  <2>2. Apply1(op, rhs, set) = Status(w)
    BY <1>3, <2>1 DEF Apply1, NumberAbs
  <2> QED BY <2>2, StatusIsResult
<1> QED BY <1>1, <1>2, <1>3

\* and those of two operands.
LEMMA Apply2Returns ==
  ASSUME NEW op \in {"add", "sub", "mul"}, NEW lhs, NEW rhs, NEW set
  PROVE  IsResult(Apply2(op, lhs, rhs, set))
<1>1. CASE op = "add"
  <2>1. PICK w : w = AddOp(lhs, rhs, set, FALSE)
    BY Zenon
  <2>2. Apply2(op, lhs, rhs, set) = Status(w)
    BY <1>1, <2>1 DEF Apply2, NumberAdd
  <2> QED BY <2>2, StatusIsResult
<1>2. CASE op = "sub"
  <2>1. PICK w : w = AddOp(lhs, rhs, set, TRUE)
    BY Zenon
  <2>2. Apply2(op, lhs, rhs, set) = Status(w)
    BY <1>2, <2>1 DEF Apply2, NumberSubtract
  <2> QED BY <2>2, StatusIsResult
<1>3. CASE op = "mul"
  <2>1. PICK w : w = MultiplyOp(lhs, rhs, set)
    BY Zenon
  <2>2. Apply2(op, lhs, rhs, set) = Status(w)
    BY <1>3, <2>1 DEF Apply2, NumberMultiply
  <2> QED BY <2>2, StatusIsResult
<1> QED BY <1>1, <1>2, <1>3

\* The operations whose result is a rounded reference.
Referenced == {"add", "sub", "mul", "plus", "neg", "abs"}

\* What a call leaves in last, when it is one of them.
LEMMA ReturnIsRounded ==
  ASSUME NoTraps, Ranged(dc), NEW op \in Referenced, NEW rhs, NEW fhs, NEW flags, NEW res,
         op \in {"plus", "neg", "abs"} => res = Apply1(op, acc, dc),
         op \in {"add", "sub", "mul"} => res = Apply2(op, acc, rhs, SetStatus(dc, flags)),
         NEW given, Return(op, rhs, fhs, given, res), Promised'
  PROVE  Returned' = RoundedReference(last'.op, last'.lhs, last'.rhs, last'.set)
<1>1. last' = [ op |-> op, lhs |-> acc, rhs |-> rhs, fhs |-> fhs, set |-> dc,
                dn |-> res.dn, status |-> res.status ]
  BY DEF Return
<1>2. /\ last'.op = op /\ last'.lhs = acc /\ last'.rhs = rhs /\ last'.set = dc
      /\ last'.dn = res.dn /\ last'.status = res.status
  BY <1>1
<1>3. /\ IsFinite(acc) /\ IsFinite(rhs) /\ HasRoom(dc)
      /\ op \in {"add", "sub"} => Summable(acc, rhs, dc)
  BY <1>2 DEF Promised
<1>4. Roomy(dc)
  BY <1>3, SessionIsRoomy
<1>5. res = RoundedReference(op, acc, rhs, dc)
  <2>1. CASE op \in {"plus", "neg", "abs"}
    BY <1>3, <1>4, <2>1, Call1IsRounded
  <2>2. CASE op \in {"add", "sub", "mul"}
    <3>1. PICK set : set = SetStatus(dc, flags)
      OBVIOUS
    <3>2. Alike(set, dc) /\ Roomy(set)
      BY <1>4, <3>1, SetStatusIsRoomy
    <3>3. op \in {"add", "sub"} => Summable(acc, rhs, set)
      BY <1>3, <3>2 DEF Summable, NotLong, Alike
    <3>4. res = RoundedReference(op, acc, rhs, set)
      BY <1>3, <2>2, <3>1, <3>2, <3>3, Call2IsRounded
    <3>5. RoundedReference(op, acc, rhs, set) = RoundedReference(op, acc, rhs, dc)
      <4>1. ASSUME NEW l, NEW r
            PROVE  /\ SumReference(l, r, set) = SumReference(l, r, dc)
                   /\ ProductReference(l, r, set) = ProductReference(l, r, dc)
        BY <3>2, ReferencesAlike
      <4> QED BY <4>1, Zenon DEF RoundedReference
    <3> QED BY <3>4, <3>5
  <2> QED BY <2>1, <2>2 DEF Referenced
<1>6. res = [ dn |-> res.dn, status |-> res.status ]
  <2>1. CASE op \in {"plus", "neg", "abs"}
    BY <2>1, Apply1Returns DEF IsResult
  <2>2. CASE op \in {"add", "sub", "mul"}
    BY <2>2, Apply2Returns DEF IsResult
  <2> QED BY <2>1, <2>2 DEF Referenced
<1>7. Returned' = res
  BY <1>2, <1>6, Zenon DEF Returned
<1> QED BY <1>2, <1>5, <1>7

\* The other steps leave no result, or that of a conversion.
LEMMA LeavesNoResult ==
  ASSUME Convert \/ Relate \/ Ask \/ Set \/ SetFails \/ SetDefault \/ SetStatusString
  PROVE  "set" \notin DOMAIN last' \/ last'.op = "tonumber"
<1>1. CASE Convert
  BY <1>1 DEF Convert
<1>2. CASE Relate
  <2>1. PICK op, rhs, answer :
             last' = [ op |-> op, lhs |-> acc, rhs |-> rhs, answer |-> answer ]
    BY <1>2 DEF Relate
  <2> QED BY <2>1
<1>3. CASE Ask
  <2>1. PICK op, answer : last' = [ op |-> op, lhs |-> acc, answer |-> answer ]
    BY <1>3 DEF Ask
  <2> QED BY <2>1
<1>4. CASE Set \/ SetFails \/ SetDefault \/ SetStatusString
  <2>1. PICK op, arg : last' = [ op |-> op, arg |-> arg ]
    BY <1>4 DEF Set, SetFails, SetDefault, SetStatusString, Method
  <2> QED BY <2>1
<1> QED BY <1>1, <1>2, <1>3, <1>4

\* A step leaves a result that is correctly rounded, or none to speak of.
LEMMA RoundedNext ==
  ASSUME NoTraps, Ranged(dc), CorrectlyRounded, [Next]_vars
  PROVE  CorrectlyRounded'
<1>1. SUFFICES ASSUME Promised', last'.op \in Referenced
               PROVE  Returned' = RoundedReference(last'.op, last'.lhs, last'.rhs, last'.set)
  BY DEF CorrectlyRounded, Referenced
<1>2. "set" \in DOMAIN last' /\ last'.op # "tonumber"
  BY <1>1 DEF Promised, FiniteOperands, Computed
<1>3. CASE Call1
  <2>1. PICK op \in Operations \cap Unary : Return(op, Zero, Zero, {}, Apply1(op, acc, dc))
    BY <1>3 DEF Call1
  <2>2. last'.op = op
    BY <2>1 DEF Return
  <2>3. op \in Referenced /\ op \notin {"add", "sub", "mul"}
    BY <1>1, <2>1, <2>2 DEF Unary
  <2> QED BY <1>1, <2>1, <2>3, ReturnIsRounded
<1>4. CASE Call2
  <2>1. PICK op \in Binary, rhs \in Arguments :
             Return(op, rhs.dn, Zero, rhs.status,
                    Apply2(op, acc, rhs.dn, SetStatus(dc, rhs.status)))
    BY <1>4 DEF Call2
  <2>2. last'.op = op
    BY <2>1 DEF Return
  <2>3. op \in Referenced /\ op \notin {"plus", "neg", "abs"}
    BY <1>1, <2>1, <2>2 DEF Binary, Unary
  <2> QED BY <1>1, <2>1, <2>3, ReturnIsRounded
<1>5. CASE Call3
  <2>1. PICK op, rhs, fhs, flags, res :
             op \in Ternary /\ Return(op, rhs, fhs, flags, res)
    BY <1>5 DEF Call3
  <2>2. last'.op = op
    BY <2>1 DEF Return
  <2> QED BY <1>1, <2>1, <2>2 DEF Referenced, Ternary
<1>6. CASE Convert \/ Relate \/ Ask \/ Set \/ SetFails \/ SetDefault \/ SetStatusString
  BY <1>2, <1>6, LeavesNoResult
<1>7. CASE UNCHANGED vars
  BY <1>1, <1>7 DEF vars, CorrectlyRounded, Promised, FiniteOperands, Computed, Returned, Referenced
<1> QED BY <1>3, <1>4, <1>5, <1>6, <1>7 DEF Next

\* Every sum, difference and product a script computes, and every plus, neg and
\* abs, is the exact result rounded once, in sign, coefficient, exponent and
\* every status flag: for any numbers, any sequence of setters, any precision and
\* exponent range, wherever the operands are short enough for decAddOp's shortcut
\* and a clamping context has room for its precision.
THEOREM SessionRoundsOnce == Spec => []CorrectlyRounded
<1>1. Init => CorrectlyRounded
  BY DEF Init, NoCall, CorrectlyRounded, Promised, FiniteOperands, Computed
<1> QED BY <1>1, RoundedNext, TrapsStayOff, ContextStaysInRange, PTL DEF Spec

----------------------------------------------------------------------------
(* Products that are added to.                                             *)

\* A product has no more digits than its factors together.
LEMMA ProductDigits ==
  ASSUME NEW a \in Nat, NEW b \in Nat
  PROVE  GetDigits(a * b) <= GetDigits(a) + GetDigits(b)
<1>1. PICK j \in Nat, k \in Nat : j = GetDigits(a) /\ k = GetDigits(b) /\ j >= 1 /\ k >= 1
  BY DigitsAre
<1>2. PICK s \in Nat, t \in Nat : s = Ten[j] /\ t = Ten[k] /\ a < s /\ b < t
  BY <1>1, DigitsAre, TenNat
<1>3. a * b \in Nat /\ a * b < s * t
  <2>1. a * b \in Nat /\ a * t \in Nat /\ s * t \in Nat
    OBVIOUS
  <2>2. a * b <= a * t
    BY <1>2, Monotone
  <2>3. (s - a) * t > 0
    BY <1>2
  <2>4. (s - a) * t = s * t - a * t
    OBVIOUS
  <2> QED BY <2>1, <2>2, <2>3, <2>4
<1>4. Ten[j + k] = s * t
  BY <1>2, TenSum
<1>5. PICK p \in Nat, y \in Nat : p = j + k /\ p >= 1 /\ y = a * b /\ y < Ten[p]
  BY <1>1, <1>3, <1>4
<1>6. GetDigits(y) <= p
  BY <1>5, DigitsFit
<1> QED BY <1>1, <1>5, <1>6

\* The wide context a product is made in.
LEMMA WideContext ==
  ASSUME NEW lhs, IsFinite(lhs), NEW rhs, IsFinite(rhs), NEW set, Roomy(set),
         NEW wide, wide = ProductContext(lhs, rhs, set), HasRoom(wide)
  PROVE  /\ Roomy(wide)
         /\ wide.digits = lhs.digits + rhs.digits
<1>1. set = [ field \in ContextFields |-> set[field] ]
  BY DEF Roomy
<1>2. /\ wide = [ field \in ContextFields |-> wide[field] ]
      /\ wide.digits = lhs.digits + rhs.digits
      /\ wide.emax = DEC_MAX_EMAX /\ wide.emin = DEC_MIN_EMIN
      /\ wide.round = set.round /\ wide.clamp = set.clamp
  BY <1>1 DEF ProductContext, ContextFields
<1>3. /\ DEC_MAX_EMAX \in Nat /\ DEC_MIN_EMIN \in Int /\ DEC_MIN_EMIN <= 0
  <2>1. DEC_MAX_EMAX \in Nat /\ DEC_MIN_EMIN \in Int /\ DEC_MIN_EMIN <= -6143
    BY SessionAssumption
  <2> QED BY <2>1
<1>4. lhs.digits \in Nat /\ lhs.digits >= 1 /\ rhs.digits \in Nat /\ rhs.digits >= 1
  BY FiniteFields
<1>5. set.round \in Roundings /\ set.clamp \in {0, 1}
  BY RoomyFacts
<1>6. Roomy(wide)
  BY <1>2, <1>3, <1>4, <1>5 DEF Roomy
<1> QED BY <1>2, <1>6

\* It holds the product exactly: no digit lost, no condition raised.
LEMMA ProductIsHeld ==
  ASSUME NEW lhs, IsFinite(lhs), NEW rhs, IsFinite(rhs), NEW set, Roomy(set),
         HoldsProduct(lhs, rhs, set),
         NEW neg \in BOOLEAN, NEW n \in Nat, NEW e \in Int,
         Multiplies(lhs, rhs, neg, n, e)
  PROVE  Outcome(MultiplyOp(lhs, rhs, ProductContext(lhs, rhs, set)))
           = [ dn |-> Finite(neg, n, e), status |-> {} ]
<1>1. PICK wide : wide = ProductContext(lhs, rhs, set)
  OBVIOUS
<1>2. HasRoom(wide) /\ e \in wide.emin..Etop(wide)
  BY <1>1 DEF HoldsProduct, Multiplies
<1>3. Roomy(wide) /\ wide.digits = lhs.digits + rhs.digits
  BY <1>1, <1>2, WideContext
<1>4. Outcome(MultiplyOp(lhs, rhs, wide)) = RoundedOnce(neg, n, e, wide)
  BY <1>3, MultiplyRounds
<1>5. /\ wide.digits \in Nat /\ wide.digits >= 1 /\ wide.emin \in Int /\ wide.emax \in Nat
      /\ Etop(wide) \in Int /\ Etop(wide) = wide.emax - wide.digits + 1
      /\ Etiny(wide) \in Int /\ Etiny(wide) = wide.emin - wide.digits + 1
      /\ wide.clamp \in {0, 1}
  BY <1>3, RoomyFacts
<1>6. RoundedOnce(neg, n, e, wide) = [ dn |-> Finite(neg, n, e), status |-> {} ]
  <2>1. CASE n # 0
    <3>1. GetDigits(n) <= wide.digits
      <4>1. PICK a \in Nat, b \in Nat, j \in Nat, k \in Nat :
                 /\ a = lhs.coeff /\ b = rhs.coeff /\ j = lhs.digits /\ k = rhs.digits
                 /\ j = GetDigits(a) /\ k = GetDigits(b)
        <5>1. lhs.coeff \in Nat /\ rhs.coeff \in Nat
          BY DEF IsFinite
        <5>2. /\ lhs.digits \in Nat /\ lhs.digits = GetDigits(lhs.coeff)
              /\ rhs.digits \in Nat /\ rhs.digits = GetDigits(rhs.coeff)
          BY FiniteFields
        <5> QED BY <5>1, <5>2, Zenon
      <4>2. n = a * b
        BY <4>1 DEF Multiplies
      <4>3. GetDigits(a * b) <= GetDigits(a) + GetDigits(b)
        BY ProductDigits
      <4>4. GetDigits(n) <= j + k
        BY <4>1, <4>2, <4>3
      <4> QED BY <1>3, <4>1, <4>4
    <3>2. e >= wide.emin /\ e <= Etop(wide)
      BY <1>2, <1>5
    <3> QED BY <1>3, <2>1, <3>1, <3>2, RoundsToItself
  <2>2. CASE n = 0
    <3>1. PICK top \in Int : top = (IF wide.clamp = 1 THEN Etop(wide) ELSE wide.emax)
      BY <1>5
    <3>2. e <= top /\ e >= Etiny(wide)
      BY <1>2, <1>5, <3>1
    <3>3. Smaller(top, Larger(Etiny(wide), e)) = e
      BY <1>5, <3>2 DEF Smaller, Larger
    <3>4. ZeroResult(neg, e, wide) = [ dn |-> Finite(neg, 0, e), status |-> {} ]
      BY <3>1, <3>3, Zenon DEF ZeroResult
    <3> QED BY <2>2, <3>4, Zenon DEF RoundedOnce
  <2> QED BY <2>1, <2>2
<1> QED BY <1>1, <1>4, <1>6

\* decNumberFMA: the exact product and the addend, rounded once.
THEOREM FusedIsRounded ==
  ASSUME NEW lhs, IsFinite(lhs), NEW rhs, IsFinite(rhs), NEW fhs, IsFinite(fhs),
         NEW set, Roomy(set), HoldsProduct(lhs, rhs, set),
         FMARestriction(lhs, rhs, fhs, set) = {},
         Summable(ProductOf(lhs, rhs), fhs, set)
  PROVE  NumberFMA(lhs, rhs, fhs, set) = SumReference(ProductOf(lhs, rhs), fhs, set)
<1>1. PICK neg \in BOOLEAN, n \in Nat, e \in Int : Multiplies(lhs, rhs, neg, n, e)
  <2>1. PICK a \in Nat, b \in Nat, x \in Int, y \in Int :
             a = lhs.coeff /\ b = rhs.coeff /\ x = lhs.exponent /\ y = rhs.exponent
    BY DEF IsFinite
  <2>2. a * b \in Nat /\ x + y \in Int /\ (lhs.neg # rhs.neg) \in BOOLEAN
    OBVIOUS
  <2> QED BY <2>1, <2>2, Zenon DEF Multiplies
<1>product. PICK product : product = ProductOf(lhs, rhs) /\ product = Finite(neg, n, e)
  BY <1>1, Zenon DEF Multiplies, ProductOf
<1>2. PICK acc2 : acc2 = MultiplyOp(lhs, rhs, ProductContext(lhs, rhs, set))
  OBVIOUS
<1>3. acc2.dn = product /\ acc2.status = {}
  <2>1. Outcome(acc2) = [ dn |-> Finite(neg, n, e), status |-> {} ]
    BY <1>1, <1>2, ProductIsHeld
  <2>2. acc2.dn = Finite(neg, n, e) /\ acc2.status = {}
    BY <2>1 DEF Outcome
  <2> QED BY <1>product, <2>2
<1>4. IsFinite(product) /\ Summable(product, fhs, set)
  BY <1>product, FiniteIs
<1>5. PICK no \in BOOLEAN, neg2 \in BOOLEAN : no = FALSE /\ neg2 = fhs.neg
  BY DEF IsFinite
<1>6. PICK sum : sum = AddOp(product, fhs, set, no)
  OBVIOUS
<1>7. Status(sum) = SumReference(product, fhs, set)
  <2>1. Turned(neg2, fhs.neg, no)
    BY <1>5 DEF Turned
  <2>2. Resign(fhs, neg2) = fhs
    BY <1>5, ResignSame
  <2> QED BY <1>4, <1>6, <2>1, <2>2, AddIsRounded
<1>8. FMAOp(lhs, rhs, fhs, set) = Work(sum.dn, sum.residue, sum.status \cup {})
  <2>1. FMAOp(lhs, rhs, fhs, set) = FMAAdd(acc2, fhs, set)
    BY <1>2, Zenon DEF FMAOp
  <2>2. FMAAdd(acc2, fhs, set)
          = Work(AddOp(product, fhs, set, FALSE).dn, AddOp(product, fhs, set, FALSE).residue,
                 AddOp(product, fhs, set, FALSE).status \cup {})
    <3>1. DEC_sNaN \notin acc2.status /\ "Invalid_operation" \notin acc2.status
      BY <1>3
    <3> QED BY <1>3, <3>1, Zenon DEF FMAAdd
  <2> QED BY <1>5, <1>6, <2>1, <2>2, Zenon
<1>9. PICK w : w = Work(sum.dn, sum.residue, sum.status \cup {})
  BY Zenon
<1>10. w.dn = sum.dn /\ w.status = sum.status
  BY <1>9 DEF Work
<1>11. Status(w) = Status(sum)
  BY <1>10, Zenon DEF Status
<1> QED BY <1>product, <1>7, <1>8, <1>9, <1>11, Zenon DEF NumberFMA

\* The references of fused calls do not depend on the status either.
LEMMA FusedAlike ==
  ASSUME NEW set, NEW other, Alike(set, other), Roomy(set), Roomy(other),
         NEW lhs, NEW rhs, NEW fhs
  PROVE  /\ HoldsProduct(lhs, rhs, set) => HoldsProduct(lhs, rhs, other)
         /\ FMARestriction(lhs, rhs, fhs, set) = FMARestriction(lhs, rhs, fhs, other)
<1>1. ASSUME NEW dn PROVE CheckMath(dn, set) = CheckMath(dn, other)
  BY Zenon DEF CheckMath, Alike
<1>2. FMARestriction(lhs, rhs, fhs, set) = FMARestriction(lhs, rhs, fhs, other)
  BY <1>1, Zenon DEF FMARestriction
<1>3. PICK wide, narrow : wide = ProductContext(lhs, rhs, set)
                          /\ narrow = ProductContext(lhs, rhs, other)
  BY Zenon
<1>4. Alike(wide, narrow)
  <2>1. set = [ field \in ContextFields |-> set[field] ]
        /\ other = [ field \in ContextFields |-> other[field] ]
    BY DEF Roomy
  <2> QED BY <1>3, <2>1 DEF ProductContext, Alike, ContextFields
<1>5. Etop(wide) = Etop(narrow) /\ wide.emin = narrow.emin /\ wide.clamp = narrow.clamp
  BY <1>4 DEF Alike, Etop
<1>6. HoldsProduct(lhs, rhs, set) => HoldsProduct(lhs, rhs, other)
  BY <1>3, <1>5, Zenon DEF HoldsProduct, HasRoom
<1> QED BY <1>2, <1>6

\* A fused call leaves a correctly rounded result.
LEMMA FusedNext ==
  ASSUME NoTraps, Ranged(dc), FMAIsFused, [Next]_vars
  PROVE  FMAIsFused'
<1>1. SUFFICES ASSUME FusedPromised' PROVE Returned' = FusedReference'
  BY DEF FMAIsFused
<1>2. last'.op = "fma" /\ "set" \in DOMAIN last'
  BY <1>1 DEF FusedPromised, FiniteOperands, Computed
<1>3. CASE Call3
  <2>1. PICK op, r, f, res :
             /\ last' = [ op |-> op, lhs |-> acc, rhs |-> r.dn, fhs |-> f.dn, set |-> dc,
                          dn |-> res.dn, status |-> res.status ]
             /\ res = NumberFMA(acc, r.dn, f.dn, SetStatus(dc, r.status \cup f.status))
    BY <1>3 DEF Call3, Return
  <2>2. PICK rhs, fhs, set : /\ rhs = r.dn /\ fhs = f.dn
                             /\ set = SetStatus(dc, r.status \cup f.status)
    BY Zenon
  <2>3. /\ last'.lhs = acc /\ last'.rhs = rhs /\ last'.fhs = fhs /\ last'.set = dc
        /\ last'.dn = res.dn /\ last'.status = res.status
    BY <2>1, <2>2
  <2>4. PICK product : product = ProductOf(acc, rhs)
    BY Zenon
  <2>5. Product' = product
    BY <2>3, <2>4, Zenon DEF Product
  <2>6. /\ IsFinite(acc) /\ IsFinite(rhs) /\ IsFinite(fhs) /\ HasRoom(dc)
        /\ HoldsProduct(acc, rhs, dc) /\ FMARestriction(acc, rhs, fhs, dc) = {}
        /\ Summable(product, fhs, dc)
    BY <1>1, <2>3, <2>5, Zenon DEF FusedPromised
  <2>7. Roomy(dc)
    BY <2>6, SessionIsRoomy
  <2>8. Alike(set, dc) /\ Roomy(set)
    BY <2>2, <2>7, SetStatusIsRoomy
  <2>9. Alike(dc, set)
    BY <2>8 DEF Alike
  <2>10. HoldsProduct(acc, rhs, set) /\ FMARestriction(acc, rhs, fhs, set) = {}
    BY <2>6, <2>7, <2>8, <2>9, FusedAlike
  <2>11. Summable(product, fhs, set)
    BY <2>6, <2>8 DEF Summable, NotLong, Alike
  <2>12. NumberFMA(acc, rhs, fhs, set) = SumReference(product, fhs, set)
    BY <2>4, <2>6, <2>8, <2>10, <2>11, FusedIsRounded
  <2>13. SumReference(product, fhs, set) = SumReference(product, fhs, dc)
    BY <2>8, ReferencesAlike
  <2>14. res = SumReference(product, fhs, dc)
    BY <2>1, <2>2, <2>12, <2>13
  <2>15. IsResult(res)
    <3>1. res = NumberFMA(acc, rhs, fhs, set)
      BY <2>1, <2>2
    <3> QED BY <3>1, StatusIsResult DEF NumberFMA
  <2>16. Returned' = res
    BY <2>3, <2>15, Zenon DEF Returned, IsResult
  <2>17. FusedReference' = SumReference(product, fhs, dc)
    BY <2>3, <2>5, Zenon DEF FusedReference
  <2> QED BY <2>14, <2>16, <2>17
<1>4. CASE Call1 \/ Call2
  <2>1. PICK op, r, f, res, flags : op \notin Ternary /\ Return(op, r, f, flags, res)
    BY <1>4 DEF Call1, Call2, Unary, Binary, Ternary
  <2>2. last'.op = op
    BY <2>1 DEF Return
  <2> QED BY <1>2, <2>1, <2>2 DEF Ternary
<1>5. ASSUME Convert \/ Relate \/ Ask \/ Set \/ SetFails \/ SetDefault \/ SetStatusString
      PROVE  "set" \notin DOMAIN last' \/ last'.op = "tonumber"
  BY <1>5, LeavesNoResult
<1>6. CASE UNCHANGED vars
  BY <1>1, <1>6 DEF vars, FMAIsFused, FusedPromised, FiniteOperands, Computed, Returned,
                    FusedReference, Product
<1> QED BY <1>2, <1>3, <1>4, <1>5, <1>6 DEF Next

\* Every fused multiplication of a script rounds once.
THEOREM SessionFusesOnce == Spec => []FMAIsFused
<1>1. Init => FMAIsFused
  BY DEF Init, NoCall, FMAIsFused, FusedPromised, FiniteOperands, Computed
<1> QED BY <1>1, FusedNext, TrapsStayOff, ContextStaysInRange, PTL DEF Spec

----------------------------------------------------------------------------
(* The order of numbers.                                                   *)

\* Numbers of Units say which of two numbers of digits is larger, when they
\* differ by enough.
LEMMA UnitsTell ==
  ASSUME NEW a \in Nat, NEW b \in Nat, NEW k \in Nat
  PROVE  /\ D2U(a) \in Nat /\ D2U(b) \in Nat /\ D2U(k) \in Nat
         /\ D2U(a) > D2U(b) => a > b
         /\ D2U(a) > D2U(b) + D2U(k) => a > b + k
         /\ D2U(a) + 1 < D2U(b) + D2U(k) => a < b + k - 1
<1>1. CASE DECDPUN = 1
  BY <1>1 DEF D2U
<1>2. CASE DECDPUN = 2
  BY <1>2 DEF D2U
<1>3. CASE DECDPUN = 3
  BY <1>3 DEF D2U
<1>4. CASE DECDPUN = 4
  BY <1>4 DEF D2U
<1> QED BY <1>1, <1>2, <1>3, <1>4, DecDPunAssumption

\* A number with more digits than another with its zeros is larger.
LEMMA LongerIsLarger ==
  ASSUME NEW a \in Nat, NEW b \in Nat, b > 0, NEW k \in Nat
  PROVE  /\ GetDigits(a) > GetDigits(b) + k => a > b * Ten[k]
         /\ a > 0 /\ GetDigits(a) < GetDigits(b) + k => a < b * Ten[k]
<1>1. PICK i \in Nat, j \in Nat : i = GetDigits(a) /\ j = GetDigits(b) /\ i >= 1 /\ j >= 1
  BY DigitsAre
<1>2. /\ b < Ten[j] /\ (j > 1 => Ten[j - 1] <= b)
      /\ a < Ten[i] /\ (i > 1 => Ten[i - 1] <= a)
  BY <1>1, DigitsAre
<1>3. PICK t \in Nat, z \in Nat : t = Ten[k] /\ t > 0 /\ z = b * t
  BY TenNat
<1>4. ASSUME i > j + k PROVE a > z
  <2>1. PICK s \in Nat, q \in Nat, w \in Nat : s = Ten[j] /\ q = Ten[j + k] /\ w = Ten[i - 1]
    BY <1>1, <1>4, TenNat
  <2>2. q = s * t
    BY <1>3, <2>1, TenSum
  <2>3. q <= w
    BY <1>4, <2>1, TenMonotone
  <2>4. w <= a
    BY <1>1, <1>2, <1>4, <2>1
  <2>5. (s - b) * t > 0
    BY <1>2, <1>3, <2>1
  <2>6. (s - b) * t = s * t - b * t
    OBVIOUS
  <2>7. s * t \in Nat
    OBVIOUS
  <2> QED BY <1>3, <2>2, <2>3, <2>4, <2>5, <2>6, <2>7
<1>5. ASSUME a > 0, i < j + k PROVE a < z
  <2>1. PICK h \in Nat : h = j - 1
    BY <1>1
  <2>2. PICK s \in Nat, q \in Nat, w \in Nat : s = Ten[h] /\ q = Ten[h + k] /\ w = Ten[i]
    BY TenNat
  <2>3. q = s * t
    BY <1>3, <2>2, TenSum
  <2>4. w <= q
    BY <1>5, <2>1, <2>2, TenMonotone
  <2>5. s <= b
    <3>1. CASE j > 1
      BY <1>2, <2>1, <2>2, <3>1
    <3>2. CASE j = 1
      BY <2>1, <2>2, <3>2, TenSmall
    <3> QED BY <1>1, <3>1, <3>2
  <2>6. s * t <= b * t
    BY <2>5, Monotone
  <2>7. s * t \in Nat
    OBVIOUS
  <2> QED BY <1>2, <1>3, <2>2, <2>3, <2>4, <2>6, <2>7
<1> QED BY <1>1, <1>3, <1>4, <1>5

\* decUnitCompare: the order of the coefficients, aligned.
LEMMA UnitCompareIs ==
  ASSUME NEW a, IsFinite(a), a.coeff # 0, NEW b, IsFinite(b), b.coeff # 0, NEW k \in Nat
  PROVE  UnitCompare(a, b, k) = Sign(a.coeff - b.coeff * Ten[k])
<1>1. PICK c \in Nat, d \in Nat : c = a.coeff /\ d = b.coeff /\ c > 0 /\ d > 0
  BY DEF IsFinite
<1>2. PICK i \in Nat, j \in Nat : /\ i = a.digits /\ j = b.digits
                                  /\ i = GetDigits(c) /\ j = GetDigits(d)
  BY <1>1, FiniteFields
<1>3. PICK z \in Nat : z = d * Ten[k]
  BY TenNat
<1>4. PICK x \in Nat, y \in Nat, u \in Nat : x = D2U(i) /\ y = D2U(j) /\ u = D2U(k)
  BY UnitsTell
<1>5. /\ i > j + k => c > z
      /\ i < j + k => c < z
  BY <1>1, <1>2, <1>3, LongerIsLarger
<1>6. /\ x > y => i > j
      /\ y > x => j > i
      /\ x > y + u => i > j + k
      /\ x + 1 < y + u => i < j + k
  <2>1. /\ D2U(i) > D2U(j) => i > j
        /\ D2U(j) > D2U(i) => j > i
        /\ D2U(i) > D2U(j) + D2U(k) => i > j + k
        /\ D2U(i) + 1 < D2U(j) + D2U(k) => i < j + k - 1
    BY UnitsTell, Zenon
  <2> QED BY <1>4, <2>1
<1>7. /\ i > j => (k = 0 => c > z)
      /\ j > i => (k = 0 => c < z)
  BY <1>5
<1> DEFINE res == UnitCompare(a, b, k)
<1>8. /\ k = 0 => res = (IF x # y THEN Sign(x - y) ELSE Sign(c - z))
      /\ k # 0 /\ x > y + u => res = 1
      /\ k # 0 /\ ~(x > y + u) /\ x + 1 < y + u => res = -1
      /\ k # 0 /\ ~(x > y + u) /\ ~(x + 1 < y + u) => res = Sign(c - z)
  <2>1. PICK p, q, m : /\ p = D2U(a.digits) /\ q = D2U(b.digits)
                       /\ m = Sign(a.coeff - b.coeff * Ten[k])
    BY Zenon
  <2>2. p = x /\ q = y /\ m = Sign(c - z)
    BY <1>1, <1>2, <1>3, <1>4, <2>1
  <2>3. res = CASE k = 0 -> IF p # q THEN Sign(p - q) ELSE m
                [] k > 0 /\ p > q + D2U(k) -> 1
                [] k > 0 /\ p + 1 < q + D2U(k) -> -1
                [] OTHER -> m
    BY <2>1, Zenon DEF UnitCompare
  <2> HIDE DEF res
  <2> QED BY <1>4, <2>2, <2>3
<1> HIDE DEF res
<1>9. res = Sign(c - z)
  <2>1. CASE k = 0 /\ x > y
    BY <1>6, <1>7, <1>8, <2>1 DEF Sign
  <2>2. CASE k = 0 /\ y > x
    BY <1>6, <1>7, <1>8, <2>2 DEF Sign
  <2>3. CASE k = 0 /\ x = y
    BY <1>8, <2>3
  <2>4. CASE k # 0 /\ x > y + u
    BY <1>5, <1>6, <1>8, <2>4 DEF Sign
  <2>5. CASE k # 0 /\ x + 1 < y + u
    BY <1>5, <1>6, <1>8, <2>5 DEF Sign
  <2>6. CASE k # 0 /\ ~(x > y + u) /\ ~(x + 1 < y + u)
    BY <1>8, <2>6
  <2> QED BY <2>1, <2>2, <2>3, <2>4, <2>5, <2>6
<1>10. Sign(c - z) = Sign(a.coeff - b.coeff * Ten[k])
  BY <1>1, <1>3
<1> QED BY <1>9, <1>10 DEF res

\* The sign of a number.
LEMMA SignIs ==
  ASSUME NEW n \in Int
  PROVE  /\ Sign(n) \in {-1, 0, 1}
         /\ n > 0 => Sign(n) = 1
         /\ n < 0 => Sign(n) = -1
         /\ n = 0 => Sign(n) = 0
  BY DEF Sign

\* The sign of a difference, where the signs differ, and where they agree.
LEMMA SignOfDifference ==
  ASSUME NEW l \in Int, NEW r \in Int
  PROVE  /\ Sign(l) # Sign(r) => Sign(Sign(l) - Sign(r)) = Sign(l - r)
         /\ Sign(l) = 0 /\ Sign(r) = 0 => Sign(l - r) = 0
         /\ Sign(r - l) = -Sign(l - r)
         /\ Sign(-l + r) = -Sign(l - r)
<1>1. CASE l > 0
  BY <1>1 DEF Sign
<1>2. CASE l < 0
  BY <1>2 DEF Sign
<1>3. CASE l = 0
  BY <1>3 DEF Sign
<1> QED BY <1>1, <1>2, <1>3

\* The sign a comparison starts from.
LEMMA SignumIs ==
  ASSUME NEW dn, IsFinite(dn), NEW no \in BOOLEAN, no = FALSE,
         NEW m \in Nat, m = 0 <=> dn.coeff = 0
  PROVE  Signum(dn, no) = Sign(IF dn.neg THEN -m ELSE m)
<1>1. IsZero(dn) <=> m = 0
  BY FiniteFields
<1>2. Signum(dn, no) = IF IsZero(dn) THEN 0 ELSE IF dn.neg THEN -1 ELSE 1
  BY Zenon DEF Signum
<1> QED BY <1>1, <1>2 DEF Sign

\* What a comparison does with two finite numbers.
LEMMA CompareCases ==
  ASSUME NEW lhs, IsFinite(lhs), NEW rhs, IsFinite(rhs), NEW no,
         NEW l \in Int, l = Signum(lhs, no), NEW r \in Int, r = Signum(rhs, no)
  PROVE  Compare(lhs, rhs, no)
           = IF l # r THEN Sign(l - r)
             ELSE IF l = 0 THEN 0
             ELSE IF lhs.exponent > rhs.exponent
               THEN -l * UnitCompare(rhs, lhs, lhs.exponent - rhs.exponent)
               ELSE l * UnitCompare(lhs, rhs, rhs.exponent - lhs.exponent)
<1>1. PICK diff, left, right : /\ diff = Sign(l - r)
         /\ left = -l * UnitCompare(rhs, lhs, lhs.exponent - rhs.exponent)
         /\ right = l * UnitCompare(lhs, rhs, rhs.exponent - lhs.exponent)
  BY Zenon
<1>2. lhs.kind # "infinite" /\ rhs.kind # "infinite"
  <2>1. lhs.kind = "finite" /\ rhs.kind = "finite"
    BY FiniteFields
  <2> QED BY <2>1
<1>3. PICK linf, rinf : /\ linf = (lhs.kind = "infinite") /\ rinf = (rhs.kind = "infinite")
                        /\ ~linf /\ ~rinf
  BY <1>2, Zenon
<1>4. Compare(lhs, rhs, no)
        = CASE l # r -> diff
            [] l = r /\ l = 0 -> 0
            [] l = r /\ l # 0 /\ (linf \/ rinf) ->
                 IF linf /\ rinf THEN 0 ELSE IF rinf THEN -l ELSE l
            [] OTHER -> IF lhs.exponent > rhs.exponent THEN left ELSE right
  BY <1>1, <1>3, Zenon DEF Compare
<1>5. Compare(lhs, rhs, no)
        = IF l # r THEN diff ELSE IF l = 0 THEN 0
          ELSE IF lhs.exponent > rhs.exponent THEN left ELSE right
  BY <1>3, <1>4
<1> QED BY <1>1, <1>5

\* decCompare: the order of the exact values, whatever the exponents.
THEOREM CompareIsExact ==
  ASSUME NEW lhs, IsFinite(lhs), NEW rhs, IsFinite(rhs)
  PROVE  Compare(lhs, rhs, FALSE) = OrderReference(lhs, rhs)
<1>0. PICK no \in BOOLEAN : no = FALSE
  OBVIOUS
<1>1. PICK x \in Int, y \in Int, a \in Nat, b \in Nat, p \in BOOLEAN, q \in BOOLEAN :
           /\ x = lhs.exponent /\ y = rhs.exponent /\ a = lhs.coeff /\ b = rhs.coeff
           /\ p = lhs.neg /\ q = rhs.neg
  BY DEF IsFinite
<1>2. PICK e \in Int : e = Smaller(x, y)
  BY DEF Smaller
<1>3. PICK j \in Nat, k \in Nat : j = x - e /\ k = y - e
  BY <1>2, LowerExponent
<1>4. PICK s \in Nat, t \in Nat : s = Ten[j] /\ t = Ten[k] /\ s > 0 /\ t > 0
  BY TenNat
<1>5. PICK m \in Nat, n \in Nat : m = a * s /\ n = b * t
  OBVIOUS
<1>6. (m = 0 <=> a = 0) /\ (n = 0 <=> b = 0)
  BY <1>4, <1>5
<1>7. PICK l \in Int, r \in Int : /\ l = (IF p THEN -m ELSE m) /\ r = (IF q THEN -n ELSE n)
  OBVIOUS
<1>8. OrderReference(lhs, rhs) = Sign(l - r)
  <2>1. At(lhs, e) = l
    BY <1>1, <1>3, <1>4, <1>5, <1>7, AtIs
  <2>2. At(rhs, e) = r
    BY <1>1, <1>3, <1>4, <1>5, <1>7, AtIs
  <2>3. OrderReference(lhs, rhs) = IF l < r THEN -1 ELSE IF l > r THEN 1 ELSE 0
    BY <1>1, <1>2, <2>1, <2>2, Zenon DEF OrderReference
  <2> QED BY <2>3 DEF Sign
<1>9. PICK u \in Int, v \in Int : u = Signum(lhs, no) /\ v = Signum(rhs, no)
                                  /\ u = Sign(l) /\ v = Sign(r)
  <2>1. Signum(lhs, no) = Sign(l) /\ Signum(rhs, no) = Sign(r)
    BY <1>0, <1>1, <1>6, <1>7, SignumIs
  <2>2. Sign(l) \in Int /\ Sign(r) \in Int
    BY DEF Sign
  <2> QED BY <2>1, <2>2
<1>10. Compare(lhs, rhs, no)
         = IF u # v THEN Sign(u - v) ELSE IF u = 0 THEN 0
           ELSE IF x > y THEN -u * UnitCompare(rhs, lhs, x - y)
                         ELSE u * UnitCompare(lhs, rhs, y - x)
  <2>1. Compare(lhs, rhs, no)
          = IF u # v THEN Sign(u - v) ELSE IF u = 0 THEN 0
            ELSE IF lhs.exponent > rhs.exponent
              THEN -u * UnitCompare(rhs, lhs, lhs.exponent - rhs.exponent)
              ELSE u * UnitCompare(lhs, rhs, rhs.exponent - lhs.exponent)
    <3>1. u = Signum(lhs, no) /\ v = Signum(rhs, no)
      BY <1>9
    <3> QED BY <3>1, CompareCases
  <2> QED BY <1>1, <2>1, Zenon
<1>11. CASE u # v
  <2>1. Compare(lhs, rhs, no) = Sign(u - v)
    BY <1>10, <1>11
  <2>2. Sign(u - v) = Sign(l - r)
    BY <1>9, <1>11, SignOfDifference
  <2> QED BY <1>0, <1>8, <2>1, <2>2
<1>12. CASE u = v /\ u = 0
  <2>1. Compare(lhs, rhs, no) = 0
    BY <1>10, <1>12
  <2>2. Sign(l - r) = 0
    <3>1. Sign(l) = 0 /\ Sign(r) = 0
      BY <1>9, <1>12
    <3> QED BY <3>1, SignOfDifference
  <2> QED BY <1>0, <1>8, <2>1, <2>2
<1>ones. ASSUME u = v, u # 0
         PROVE  /\ a # 0 /\ b # 0 /\ p = q
                /\ u = (IF p THEN -1 ELSE 1)
                /\ Sign(l - r) = u * Sign(m - n)
  <2>1. /\ l > 0 => u = 1
        /\ l < 0 => u = -1
        /\ l = 0 => u = 0
        /\ r > 0 => v = 1
        /\ r < 0 => v = -1
        /\ r = 0 => v = 0
    BY <1>9, SignIs
  <2>2. l # 0 /\ r # 0 /\ m # 0 /\ n # 0
    BY <1>ones, <1>7, <2>1
  <2>3. a # 0 /\ b # 0
    BY <1>6, <2>2
  <2>4. /\ p => l < 0
        /\ ~p => l > 0
        /\ q => r < 0
        /\ ~q => r > 0
    BY <1>7, <2>2
  <2>5. p = q
    BY <1>ones, <2>1, <2>4
  <2>6. CASE p
    <3>1. u = -1 /\ l = -m /\ r = -n
      BY <1>7, <2>1, <2>4, <2>5, <2>6
    <3>2. Sign(l - r) = -Sign(m - n)
      <4>1. l - r = -m + n
        BY <3>1
      <4> QED BY <4>1, SignOfDifference
    <3>3. Sign(m - n) \in Int
      BY SignIs
    <3> QED BY <2>3, <2>5, <2>6, <3>1, <3>2, <3>3
  <2>7. CASE ~p
    <3>1. u = 1 /\ l = m /\ r = n
      BY <1>7, <2>1, <2>4, <2>5, <2>7
    <3>3. Sign(m - n) \in Int
      BY SignIs
    <3> QED BY <2>3, <2>5, <2>7, <3>1, <3>3
  <2> QED BY <2>6, <2>7
<1>13. CASE u = v /\ u # 0 /\ x > y
  <2>1. e = y /\ j = x - y /\ t = 1
    BY <1>2, <1>3, <1>4, <1>13, TenSmall DEF Smaller
  <2>2. UnitCompare(rhs, lhs, j) = Sign(b - a * s)
    BY <1>1, <1>4, <1>13, <1>ones, UnitCompareIs
  <2>3. b - a * s = n - m
    BY <1>5, <2>1
  <2>4. Compare(lhs, rhs, no) = -u * Sign(n - m)
    BY <1>10, <1>13, <2>1, <2>2, <2>3
  <2>5. Sign(n - m) = -Sign(m - n) /\ Sign(m - n) \in Int
    <3>1. m - n \in Int
      OBVIOUS
    <3>2. Sign(m - n) \in {-1, 0, 1}
      BY <3>1, SignIs
    <3>3. Sign(n - m) = -Sign(m - n)
      BY SignOfDifference
    <3> QED BY <3>2, <3>3
  <2>6. -u * (-Sign(m - n)) = u * Sign(m - n)
    BY <2>5
  <2> QED BY <1>0, <1>8, <1>13, <1>ones, <2>4, <2>5, <2>6
<1>14. CASE u = v /\ u # 0 /\ ~(x > y)
  <2>1. e = x /\ k = y - x /\ s = 1
    BY <1>2, <1>3, <1>4, <1>14, TenSmall DEF Smaller
  <2>2. UnitCompare(lhs, rhs, k) = Sign(a - b * t)
    BY <1>1, <1>4, <1>14, <1>ones, UnitCompareIs
  <2>3. a - b * t = m - n
    BY <1>5, <2>1
  <2>4. Compare(lhs, rhs, no) = u * Sign(m - n)
    BY <1>10, <1>14, <2>1, <2>2, <2>3
  <2> QED BY <1>0, <1>8, <1>14, <1>ones, <2>4
<1> QED BY <1>11, <1>12, <1>13, <1>14

\* A number fitted to the context is rounded once.
LEMMA ChooseIsRounded ==
  ASSUME NEW dn, IsFinite(dn), NEW set, Roomy(set)
  PROVE  Status(Choose(dn, set)) = RoundedOnce(dn.neg, dn.coeff, dn.exponent, set)
<1>1. PICK neg \in BOOLEAN, n \in Nat, e \in Int :
           neg = dn.neg /\ n = dn.coeff /\ e = dn.exponent /\ dn = Finite(neg, n, e)
  BY DEF IsFinite
<1>2. PICK w : w = Choose(dn, set)
  OBVIOUS
<1>3. Outcome(w) = RoundedOnce(neg, n, e, set)
  <2>1. Choose(dn, set) = Finalize(CopyFit(Finite(neg, n, e), set, 0, {}), set)
    BY <1>1, Zenon DEF Choose
  <2>2. Outcome(Finalize(CopyFit(Finite(neg, n, e), set, 0, {}), set))
          = RoundedOnce(neg, n, e, set)
    BY FinalizeIsRounded
  <2> QED BY <1>2, <2>1, <2>2, Zenon
<1>4. Status(w) = RoundedOnce(neg, n, e, set)
  BY <1>3, StatusOfRounded
<1> QED BY <1>1, <1>2, <1>4, Zenon

\* The reference's order is turned round by swapping.
LEMMA OrderTurns ==
  ASSUME NEW lhs, IsFinite(lhs), NEW rhs, IsFinite(rhs)
  PROVE  /\ OrderReference(lhs, rhs) \in {-1, 0, 1}
         /\ OrderReference(rhs, lhs) = -OrderReference(lhs, rhs)
<1>1. PICK x \in Int, y \in Int : x = lhs.exponent /\ y = rhs.exponent
  BY DEF IsFinite
<1>2. PICK e \in Int : e = Smaller(x, y) /\ e = Smaller(y, x)
  BY DEF Smaller
<1>3. PICK j \in Nat, k \in Nat : j = x - e /\ k = y - e
  BY <1>2, LowerExponent
<1>4. PICK m \in Nat, n \in Nat : m = lhs.coeff * Ten[j] /\ n = rhs.coeff * Ten[k]
  BY TenNat DEF IsFinite
<1>5. PICK l \in Int, r \in Int : l = At(lhs, e) /\ r = At(rhs, e)
  <2>1. At(lhs, e) \in Int
    BY <1>1, <1>3, <1>4, AtIs
  <2>2. At(rhs, e) \in Int
    BY <1>1, <1>3, <1>4, AtIs
  <2> QED BY <2>1, <2>2
<1>6. /\ OrderReference(lhs, rhs) = IF l < r THEN -1 ELSE IF l > r THEN 1 ELSE 0
      /\ OrderReference(rhs, lhs) = IF r < l THEN -1 ELSE IF r > l THEN 1 ELSE 0
  BY <1>1, <1>2, <1>5, Zenon DEF OrderReference
<1> QED BY <1>6

\* Numbers of one sign and one exponent that are equal are the same.
LEMMA EqualNumbers ==
  ASSUME NEW lhs, IsFinite(lhs), NEW rhs, IsFinite(rhs),
         OrderReference(lhs, rhs) = 0, lhs.neg = rhs.neg, lhs.exponent = rhs.exponent
  PROVE  lhs = rhs
<1>1. PICK x \in Int, a \in Nat, b \in Nat, neg \in BOOLEAN :
           /\ x = lhs.exponent /\ a = lhs.coeff /\ b = rhs.coeff /\ neg = lhs.neg
  BY DEF IsFinite
<1>2. x = rhs.exponent /\ neg = rhs.neg
  BY <1>1
<1>3. Smaller(x, x) = x
  BY DEF Smaller
<1>4. PICK k \in Nat : k = 0 /\ x - x = k /\ a = a * Ten[k] /\ b = b * Ten[k]
  BY TenSmall
<1>5. PICK l \in Int, r \in Int : l = At(lhs, x) /\ r = At(rhs, x)
                                  /\ l = (IF neg THEN -a ELSE a)
                                  /\ r = (IF neg THEN -b ELSE b)
  <2>1. At(lhs, x) \in Int /\ At(lhs, x) = IF lhs.neg THEN -a ELSE a
    BY <1>1, <1>4, AtIs
  <2>2. At(rhs, x) \in Int /\ At(rhs, x) = IF rhs.neg THEN -b ELSE b
    BY <1>1, <1>2, <1>4, AtIs
  <2> QED BY <1>1, <1>2, <2>1, <2>2
<1>6. OrderReference(lhs, rhs) = IF l < r THEN -1 ELSE IF l > r THEN 1 ELSE 0
  BY <1>1, <1>2, <1>3, <1>5, Zenon DEF OrderReference
<1>7. l = r
  BY <1>6
<1>8. a = b
  BY <1>5, <1>7
<1>9. lhs = Finite(neg, a, x) /\ rhs = Finite(neg, b, x)
  BY <1>1, <1>2 DEF IsFinite
<1> QED BY <1>8, <1>9

\* The order that max and min go by.
Decides(order, lhs, rhs) ==
  order = IF OrderReference(lhs, rhs) = 0 THEN MaxTie(lhs, rhs) ELSE OrderReference(lhs, rhs)

\* The operand that order and the kind of extremum choose.
Chosen(order, min, lhs, rhs) == IF (order > 0) # min THEN lhs ELSE rhs

\* It is the left one for a maximum, the right one for a minimum, or the reverse.
LEMMA ChosenIs ==
  ASSUME NEW order \in Int, NEW min \in BOOLEAN, NEW lhs, NEW rhs
  PROVE  /\ order > 0 /\ ~min => Chosen(order, min, lhs, rhs) = lhs
         /\ order > 0 /\ min => Chosen(order, min, lhs, rhs) = rhs
         /\ ~(order > 0) /\ min => Chosen(order, min, lhs, rhs) = lhs
         /\ ~(order > 0) /\ ~min => Chosen(order, min, lhs, rhs) = rhs
<1>1. order > 0 /\ ~min => Chosen(order, min, lhs, rhs) = lhs
  BY DEF Chosen
<1>2. order > 0 /\ min => Chosen(order, min, lhs, rhs) = rhs
  BY DEF Chosen
<1>3. ~(order > 0) /\ min => Chosen(order, min, lhs, rhs) = lhs
  BY DEF Chosen
<1>4. ~(order > 0) /\ ~min => Chosen(order, min, lhs, rhs) = rhs
  BY DEF Chosen
<1> QED BY <1>1, <1>2, <1>3, <1>4

\* The number that max, or min, prefers of two finite ones.
LEMMA PreferredIs ==
  ASSUME NEW lhs, IsFinite(lhs), NEW rhs, IsFinite(rhs), NEW min \in BOOLEAN,
         NEW order \in Int, Decides(order, lhs, rhs)
  PROVE  Preferred(lhs, rhs, min, FALSE) = Chosen(order, min, lhs, rhs)
<1>1. ~IsNaN(lhs) /\ ~IsNaN(rhs)
  BY FiniteFields
<1>2. Compare(lhs, rhs, FALSE) = OrderReference(lhs, rhs)
  BY CompareIsExact, Zenon
<1>3. Preferred(lhs, rhs, min, FALSE)
        = IF (IF IsNaN(lhs) \/ IsNaN(rhs) THEN IsNaN(rhs) ELSE (order > 0) # min)
            THEN lhs ELSE rhs
  BY <1>2, Zenon DEF Preferred, Decides
<1> QED BY <1>1, <1>3, Zenon DEF Chosen

\* Equal numbers are told apart by their signs, then by their exponents.
LEMMA MaxTieIs ==
  ASSUME NEW lhs, NEW rhs, NEW p \in BOOLEAN, p = lhs.neg, NEW q \in BOOLEAN, q = rhs.neg,
         NEW x \in Int, x = lhs.exponent, NEW y \in Int, y = rhs.exponent
  PROVE  MaxTie(lhs, rhs) = IF p # q THEN (IF p THEN -1 ELSE 1)
                            ELSE IF p THEN (IF x < y THEN 1 ELSE -1)
                            ELSE (IF x > y THEN 1 ELSE -1)
<1>1. CASE p # q
  BY <1>1 DEF MaxTie
<1>2. CASE p /\ q
  BY <1>2 DEF MaxTie
<1>3. CASE ~p /\ ~q
  BY <1>3 DEF MaxTie
<1> QED BY <1>1, <1>2, <1>3

\* The choice does not depend on the order of equal operands.
LEMMA TieIsSymmetric ==
  ASSUME NEW lhs, IsFinite(lhs), NEW rhs, IsFinite(rhs), OrderReference(lhs, rhs) = 0,
         NEW min \in BOOLEAN
  PROVE  Preferred(lhs, rhs, min, FALSE) = Preferred(rhs, lhs, min, FALSE)
<1>1. PICK x \in Int, y \in Int, p \in BOOLEAN, q \in BOOLEAN :
           x = lhs.exponent /\ y = rhs.exponent /\ p = lhs.neg /\ q = rhs.neg
  BY DEF IsFinite
<1>2. PICK s \in Int : s = IF p # q THEN (IF p THEN -1 ELSE 1)
                           ELSE IF p THEN (IF x < y THEN 1 ELSE -1)
                           ELSE (IF x > y THEN 1 ELSE -1)
  OBVIOUS
<1>3. PICK t \in Int : t = IF q # p THEN (IF q THEN -1 ELSE 1)
                           ELSE IF q THEN (IF y < x THEN 1 ELSE -1)
                           ELSE (IF y > x THEN 1 ELSE -1)
  OBVIOUS
<1>4. MaxTie(lhs, rhs) = s /\ MaxTie(rhs, lhs) = t
  BY <1>1, <1>2, <1>3, MaxTieIs
<1>5. OrderReference(rhs, lhs) = 0
  <2>1. OrderReference(rhs, lhs) = -OrderReference(lhs, rhs)
    BY OrderTurns
  <2>2. PICK o \in Int, z \in Int : /\ o = OrderReference(lhs, rhs) /\ o = 0
                                    /\ z = -o /\ z = 0
    BY OrderTurns
  <2>3. OrderReference(rhs, lhs) = z
    BY <2>1, <2>2
  <2> QED BY <2>2, <2>3
<1>6. Preferred(lhs, rhs, min, FALSE) = Chosen(s, min, lhs, rhs)
  <2>1. Decides(s, lhs, rhs)
    BY <1>4, Zenon DEF Decides
  <2> QED BY <2>1, PreferredIs, Zenon
<1>7. Preferred(rhs, lhs, min, FALSE) = Chosen(t, min, rhs, lhs)
  <2>1. Decides(t, rhs, lhs)
    BY <1>4, <1>5, Zenon DEF Decides
  <2> QED BY <2>1, PreferredIs, Zenon
<1>8. p # q \/ x # y => ((t > 0) <=> ~(s > 0))
  <2>1. CASE p
    <3>1. CASE q
      BY <1>2, <1>3, <2>1, <3>1
    <3>2. CASE ~q
      <4>1. p # q /\ q # p
        BY <2>1, <3>2, Zenon
      <4>2. s = -1 /\ t = 1
        BY <1>2, <1>3, <2>1, <3>2, <4>1, Zenon
      <4> QED BY <4>2
    <3> QED BY <3>1, <3>2
  <2>2. CASE ~p
    <3>1. CASE q
      <4>1. p # q /\ q # p
        BY <2>2, <3>1, Zenon
      <4>2. s = 1 /\ t = -1
        BY <1>2, <1>3, <2>2, <3>1, <4>1, Zenon
      <4> QED BY <4>2
    <3>2. CASE ~q
      BY <1>2, <1>3, <2>2, <3>2
    <3> QED BY <3>1, <3>2
  <2> QED BY <2>1, <2>2
<1>9. CASE p # q \/ x # y
  <2>1. /\ s > 0 /\ ~min => Chosen(s, min, lhs, rhs) = lhs
        /\ s > 0 /\ min => Chosen(s, min, lhs, rhs) = rhs
        /\ ~(s > 0) /\ min => Chosen(s, min, lhs, rhs) = lhs
        /\ ~(s > 0) /\ ~min => Chosen(s, min, lhs, rhs) = rhs
    BY ChosenIs
  <2>2. /\ t > 0 /\ ~min => Chosen(t, min, rhs, lhs) = rhs
        /\ t > 0 /\ min => Chosen(t, min, rhs, lhs) = lhs
        /\ ~(t > 0) /\ min => Chosen(t, min, rhs, lhs) = rhs
        /\ ~(t > 0) /\ ~min => Chosen(t, min, rhs, lhs) = lhs
    BY ChosenIs
  <2> QED BY <1>6, <1>7, <1>8, <1>9, <2>1, <2>2, Zenon
<1>10. CASE p = q /\ x = y
  <2>1. lhs = rhs
    BY <1>1, <1>10, EqualNumbers
  <2> QED BY <2>1
<1> QED BY <1>9, <1>10

\* decNumberCompare: the order of the exact values, and no status.
LEMMA CompareIsRounded ==
  ASSUME NEW lhs, IsFinite(lhs), NEW rhs, IsFinite(rhs), NEW set
  PROVE  NumberCompare(lhs, rhs, set)
           = [ dn |-> SignNumber(OrderReference(lhs, rhs)), status |-> {} ]
<1>1. PICK dn : dn = SignNumber(OrderReference(lhs, rhs))
  OBVIOUS
<1>2. CompareOp(lhs, rhs, set) = Work(dn, 0, {})
  <2>1. ~IsNaN(lhs) /\ ~IsNaN(rhs)
    BY FiniteFields
  <2>2. Compare(lhs, rhs, FALSE) = OrderReference(lhs, rhs)
    BY CompareIsExact, Zenon
  <2> QED BY <1>1, <2>1, <2>2, Zenon DEF CompareOp, Exact
<1>3. PICK w : w = CompareOp(lhs, rhs, set) /\ w.dn = dn /\ w.status = {}
  BY <1>2 DEF Work
<1>4. Status(w) = [ dn |-> dn, status |-> {} ]
  <2>1. Status(w) = Outcome(w)
    BY <1>3, StatusIs DEF RangeFlags
  <2> QED BY <1>3, <2>1 DEF Outcome
<1> QED BY <1>1, <1>3, <1>4 DEF NumberCompare

\* A maximum or a minimum is the better of its operands.
LEMMA BetterIs ==
  ASSUME NEW lhs, IsFinite(lhs), NEW rhs, IsFinite(rhs), NEW set, Roomy(set),
         NEW min \in BOOLEAN,
         NEW better \in Int,
         better = (IF min THEN -OrderReference(lhs, rhs) ELSE OrderReference(lhs, rhs)),
         NEW swapped, swapped = Status(Choose(Preferred(rhs, lhs, min, FALSE), set))
  PROVE  IsBetter(Status(Choose(Preferred(lhs, rhs, min, FALSE), set)), better, lhs, rhs,
                  swapped, set)
<1>1. PICK first, second : first = RoundedOnce(lhs.neg, lhs.coeff, lhs.exponent, set)
                        /\ second = RoundedOnce(rhs.neg, rhs.coeff, rhs.exponent, set)
  BY Zenon
<1>2. Status(Choose(lhs, set)) = first /\ Status(Choose(rhs, set)) = second
  BY <1>1, ChooseIsRounded
<1>3. PICK o \in Int : o = OrderReference(lhs, rhs) /\ o \in {-1, 0, 1}
  BY OrderTurns
<1>4. PICK order \in Int : Decides(order, lhs, rhs) /\ (o # 0 => order = o)
  <2>1. PICK x \in Int, y \in Int, p \in BOOLEAN, q \in BOOLEAN :
             x = lhs.exponent /\ y = rhs.exponent /\ p = lhs.neg /\ q = rhs.neg
    BY DEF IsFinite
  <2>2. MaxTie(lhs, rhs) \in Int
    BY <2>1, MaxTieIs
  <2>3. PICK order \in Int : order = IF o = 0 THEN MaxTie(lhs, rhs) ELSE o
    BY <2>2
  <2>4. Decides(order, lhs, rhs)
    BY <1>3, <2>3, Zenon DEF Decides
  <2> QED BY <2>3, <2>4
<1>5. PICK dn : dn = Preferred(lhs, rhs, min, FALSE)
                /\ dn = Chosen(order, min, lhs, rhs)
  BY <1>4, PreferredIs, Zenon
<1>6. PICK res : /\ res = Status(Choose(Preferred(lhs, rhs, min, FALSE), set))
                 /\ order > 0 /\ ~min => res = first
                 /\ order > 0 /\ min => res = second
                 /\ ~(order > 0) /\ min => res = first
                 /\ ~(order > 0) /\ ~min => res = second
  <2>1. /\ order > 0 /\ ~min => dn = lhs
        /\ order > 0 /\ min => dn = rhs
        /\ ~(order > 0) /\ min => dn = lhs
        /\ ~(order > 0) /\ ~min => dn = rhs
    <3>1. /\ order > 0 /\ ~min => Chosen(order, min, lhs, rhs) = lhs
          /\ order > 0 /\ min => Chosen(order, min, lhs, rhs) = rhs
          /\ ~(order > 0) /\ min => Chosen(order, min, lhs, rhs) = lhs
          /\ ~(order > 0) /\ ~min => Chosen(order, min, lhs, rhs) = rhs
      BY ChosenIs
    <3> QED BY <1>5, <3>1, Zenon
  <2> QED BY <1>2, <1>5, <2>1, Zenon
<1>7. (min => better = -o) /\ (~min => better = o)
  <2>1. CASE min
    BY <1>3, <2>1
  <2>2. CASE ~min
    BY <1>3, <2>2
  <2> QED BY <2>1, <2>2
<1>8. better > 0 => res = first
  <2>1. SUFFICES ASSUME better > 0 PROVE res = first
    OBVIOUS
  <2>2. CASE min
    <3>1. o < 0
      BY <1>7, <2>1, <2>2
    <3>2. ~(order > 0)
      BY <1>4, <3>1
    <3> QED BY <1>6, <2>2, <3>2, Zenon
  <2>3. CASE ~min
    <3>1. o > 0
      BY <1>7, <2>1, <2>3
    <3>2. order > 0
      BY <1>4, <3>1
    <3> QED BY <1>6, <2>3, <3>2, Zenon
  <2> QED BY <2>2, <2>3
<1>9. better < 0 => res = second
  <2>1. SUFFICES ASSUME better < 0 PROVE res = second
    OBVIOUS
  <2>2. CASE min
    <3>1. o > 0
      BY <1>7, <2>1, <2>2
    <3>2. order > 0
      BY <1>4, <3>1
    <3> QED BY <1>6, <2>2, <3>2, Zenon
  <2>3. CASE ~min
    <3>1. o < 0
      BY <1>7, <2>1, <2>3
    <3>2. ~(order > 0)
      BY <1>4, <3>1
    <3> QED BY <1>6, <2>3, <3>2, Zenon
  <2> QED BY <2>2, <2>3
<1>10. better = 0 => res \in {first, second} /\ res = swapped
  <2>1. SUFFICES ASSUME better = 0 PROVE res \in {first, second} /\ res = swapped
    OBVIOUS
  <2>2. OrderReference(lhs, rhs) = 0
    BY <1>3, <1>7, <2>1
  <2>3. Preferred(lhs, rhs, min, FALSE) = Preferred(rhs, lhs, min, FALSE)
    BY <2>2, TieIsSymmetric, Zenon
  <2> QED BY <1>6, <2>3
<1>11. IsBetter(res, better, lhs, rhs, swapped, set)
  BY <1>1, <1>8, <1>9, <1>10, Zenon DEF IsBetter
<1> QED BY <1>6, <1>11

\* How decNumberMax and decNumberMin choose.
LEMMA ExtremumOf ==
  ASSUME NEW l, IsFinite(l), NEW r, IsFinite(r), NEW set
  PROVE  /\ NumberMax(l, r, set) = Status(Choose(Preferred(l, r, FALSE, FALSE), set))
         /\ NumberMin(l, r, set) = Status(Choose(Preferred(l, r, TRUE, FALSE), set))
<1>1. ~IsNaN(l) /\ ~IsNaN(r) /\ l.kind # "sNaN" /\ r.kind # "sNaN"
  <2>1. ~IsNaN(l) /\ l.kind = "finite" /\ ~IsNaN(r) /\ r.kind = "finite"
    BY FiniteFields
  <2> QED BY <2>1
<1>2. NumberMax(l, r, set) = Status(Choose(Preferred(l, r, FALSE, FALSE), set))
  BY <1>1, Zenon DEF NumberMax, MaxMinOp
<1>3. NumberMin(l, r, set) = Status(Choose(Preferred(l, r, TRUE, FALSE), set))
  BY <1>1, Zenon DEF NumberMin, MaxMinOp
<1> QED BY <1>2, <1>3

\* decNumberMax and decNumberMin: the better number of the two, rounded once.
THEOREM ExtremumIsExact ==
  ASSUME NEW lhs, IsFinite(lhs), NEW rhs, IsFinite(rhs), NEW set, Roomy(set)
  PROVE  /\ IsBetter(NumberMax(lhs, rhs, set), OrderReference(lhs, rhs), lhs, rhs,
                     NumberMax(rhs, lhs, set), set)
         /\ IsBetter(NumberMin(lhs, rhs, set), -OrderReference(lhs, rhs), lhs, rhs,
                     NumberMin(rhs, lhs, set), set)
<1>1. PICK o \in Int : o = OrderReference(lhs, rhs)
  BY OrderTurns
<1>2. PICK no \in BOOLEAN, yes \in BOOLEAN : no = FALSE /\ yes = TRUE
  OBVIOUS
<1>3. ASSUME NEW l, IsFinite(l), NEW r, IsFinite(r)
      PROVE  /\ NumberMax(l, r, set) = Status(Choose(Preferred(l, r, no, FALSE), set))
             /\ NumberMin(l, r, set) = Status(Choose(Preferred(l, r, yes, FALSE), set))
  BY <1>2, <1>3, ExtremumOf, Zenon
<1>4. IsBetter(NumberMax(lhs, rhs, set), o, lhs, rhs, NumberMax(rhs, lhs, set), set)
  <2>1. PICK swapped : swapped = Status(Choose(Preferred(rhs, lhs, no, FALSE), set))
    BY Zenon
  <2>2. o = (IF no THEN -OrderReference(lhs, rhs) ELSE OrderReference(lhs, rhs))
    BY <1>1, <1>2
  <2>3. IsBetter(Status(Choose(Preferred(lhs, rhs, no, FALSE), set)), o, lhs, rhs, swapped, set)
    BY <2>1, <2>2, BetterIs, Zenon
  <2>4. NumberMax(lhs, rhs, set) = Status(Choose(Preferred(lhs, rhs, no, FALSE), set))
        /\ NumberMax(rhs, lhs, set) = swapped
    BY <1>3, <2>1
  <2> QED BY <2>3, <2>4
<1>5. IsBetter(NumberMin(lhs, rhs, set), -o, lhs, rhs, NumberMin(rhs, lhs, set), set)
  <2>1. PICK swapped : swapped = Status(Choose(Preferred(rhs, lhs, yes, FALSE), set))
    BY Zenon
  <2>2. PICK p \in Int :
          /\ p = -o
          /\ p = (IF yes THEN -OrderReference(lhs, rhs) ELSE OrderReference(lhs, rhs))
    BY <1>1, <1>2
  <2>3. IsBetter(Status(Choose(Preferred(lhs, rhs, yes, FALSE), set)), p, lhs, rhs, swapped, set)
    BY <2>1, <2>2, BetterIs, Zenon
  <2>4. NumberMin(lhs, rhs, set) = Status(Choose(Preferred(lhs, rhs, yes, FALSE), set))
        /\ NumberMin(rhs, lhs, set) = swapped
    BY <1>3, <2>1
  <2> QED BY <2>2, <2>3, <2>4
<1> QED BY <1>1, <1>4, <1>5

\* An extremum does not depend on the status of its context.
LEMMA ExtremumAlike ==
  ASSUME NEW l, IsFinite(l), NEW r, IsFinite(r), NEW set, Roomy(set), NEW other,
         Roomy(other), Alike(set, other)
  PROVE  /\ NumberMax(l, r, set) = NumberMax(l, r, other)
         /\ NumberMin(l, r, set) = NumberMin(l, r, other)
<1>1. ASSUME NEW dn, IsFinite(dn)
      PROVE  Status(Choose(dn, set)) = Status(Choose(dn, other))
  <2>1. Status(Choose(dn, set)) = RoundedOnce(dn.neg, dn.coeff, dn.exponent, set)
    BY <1>1, ChooseIsRounded
  <2>2. Status(Choose(dn, other)) = RoundedOnce(dn.neg, dn.coeff, dn.exponent, other)
    BY <1>1, ChooseIsRounded
  <2>3. RoundedOnce(dn.neg, dn.coeff, dn.exponent, set)
          = RoundedOnce(dn.neg, dn.coeff, dn.exponent, other)
    BY RoundedAlike
  <2> QED BY <2>1, <2>2, <2>3
<1>2. ASSUME NEW min PROVE IsFinite(Preferred(l, r, min, FALSE))
  <2>1. Preferred(l, r, min, FALSE) = l \/ Preferred(l, r, min, FALSE) = r
    BY Zenon DEF Preferred
  <2> QED BY <2>1, Zenon
<1>3. /\ NumberMax(l, r, set) = Status(Choose(Preferred(l, r, FALSE, FALSE), set))
      /\ NumberMin(l, r, set) = Status(Choose(Preferred(l, r, TRUE, FALSE), set))
      /\ NumberMax(l, r, other) = Status(Choose(Preferred(l, r, FALSE, FALSE), other))
      /\ NumberMin(l, r, other) = Status(Choose(Preferred(l, r, TRUE, FALSE), other))
  BY ExtremumOf, Zenon
<1> QED BY <1>1, <1>2, <1>3, Zenon

\* Nor does what makes it the better number.
LEMMA BetterAlike ==
  ASSUME NEW set, NEW other, Alike(set, other), NEW res, NEW better, NEW lhs, NEW rhs,
         NEW swapped, IsBetter(res, better, lhs, rhs, swapped, set)
  PROVE  IsBetter(res, better, lhs, rhs, swapped, other)
<1>1. /\ RoundedOnce(lhs.neg, lhs.coeff, lhs.exponent, set)
           = RoundedOnce(lhs.neg, lhs.coeff, lhs.exponent, other)
      /\ RoundedOnce(rhs.neg, rhs.coeff, rhs.exponent, set)
           = RoundedOnce(rhs.neg, rhs.coeff, rhs.exponent, other)
  BY RoundedAlike
<1> QED BY <1>1, Zenon DEF IsBetter

\* A call with two numbers, when it is one that orders them.
LEMMA ReturnIsOrdered ==
  ASSUME NoTraps, Ranged(dc), NEW op \in {"compare", "max", "min"}, NEW rhs, NEW flags,
         NEW set, set = SetStatus(dc, flags), NEW res, res = Apply2(op, acc, rhs, set),
         IsFinite(acc), IsFinite(rhs), op = "compare" \/ HasRoom(dc)
  PROVE  LET order == OrderReference(acc, rhs)
         IN  /\ op = "compare" => res = [ dn |-> SignNumber(order), status |-> {} ]
             /\ op = "max" => IsBetter(res, order, acc, rhs, NumberMax(rhs, acc, dc), dc)
             /\ op = "min" => IsBetter(res, -order, acc, rhs, NumberMin(rhs, acc, dc), dc)
<1>1. CASE op = "compare"
  <2>1. res = NumberCompare(acc, rhs, set)
    BY <1>1, Zenon DEF Apply2
  <2> QED BY <1>1, <2>1, CompareIsRounded
<1>2. CASE op # "compare"
  <2>1. Roomy(dc)
    BY <1>2, SessionIsRoomy
  <2>2. Alike(set, dc) /\ Roomy(set)
    BY <2>1, SetStatusIsRoomy
  <2>3. /\ IsBetter(NumberMax(acc, rhs, set), OrderReference(acc, rhs), acc, rhs,
                    NumberMax(rhs, acc, set), set)
        /\ IsBetter(NumberMin(acc, rhs, set), -OrderReference(acc, rhs), acc, rhs,
                    NumberMin(rhs, acc, set), set)
    BY <2>2, ExtremumIsExact
  <2>4. /\ NumberMax(rhs, acc, set) = NumberMax(rhs, acc, dc)
        /\ NumberMin(rhs, acc, set) = NumberMin(rhs, acc, dc)
    BY <2>1, <2>2, ExtremumAlike
  <2>5. /\ IsBetter(NumberMax(acc, rhs, set), OrderReference(acc, rhs), acc, rhs,
                    NumberMax(rhs, acc, dc), dc)
        /\ IsBetter(NumberMin(acc, rhs, set), -OrderReference(acc, rhs), acc, rhs,
                    NumberMin(rhs, acc, dc), dc)
    BY <2>2, <2>3, <2>4, BetterAlike, Zenon
  <2>6. CASE op = "max"
    <3>1. res = NumberMax(acc, rhs, set)
      BY <2>6 DEF Apply2
    <3> QED BY <1>2, <2>5, <2>6, <3>1
  <2>7. CASE op = "min"
    <3>1. res = NumberMin(acc, rhs, set)
      BY <2>7 DEF Apply2
    <3> QED BY <1>2, <2>5, <2>7, <3>1
  <2> QED BY <1>2, <2>6, <2>7
<1> QED BY <1>1, <1>2

\* What these calls return is a number and a status.
LEMMA OrderReturns ==
  ASSUME NEW op \in {"compare", "max", "min"}, NEW lhs, NEW rhs, NEW set
  PROVE  IsResult(Apply2(op, lhs, rhs, set))
<1>1. PICK compare, max, min : /\ compare = CompareOp(lhs, rhs, set)
                               /\ max = MaxMinOp(lhs, rhs, set, FALSE, FALSE)
                               /\ min = MaxMinOp(lhs, rhs, set, TRUE, FALSE)
  BY Zenon
<1>2. IsResult(Status(compare)) /\ IsResult(Status(max)) /\ IsResult(Status(min))
  BY StatusIsResult
<1>3. CASE op = "compare"
  BY <1>1, <1>2, <1>3, Zenon DEF Apply2, NumberCompare
<1>4. CASE op = "max"
  <2>1. Apply2(op, lhs, rhs, set) = NumberMax(lhs, rhs, set)
    BY <1>4 DEF Apply2
  <2> QED BY <1>1, <1>2, <2>1, Zenon DEF NumberMax
<1>5. CASE op = "min"
  <2>1. Apply2(op, lhs, rhs, set) = NumberMin(lhs, rhs, set)
    BY <1>5 DEF Apply2
  <2> QED BY <1>1, <1>2, <2>1, Zenon DEF NumberMin
<1> QED BY <1>3, <1>4, <1>5

\* It leaves what it returned, or nothing about an order.
LEMMA OrderNext ==
  ASSUME NoTraps, Ranged(dc), OrderIsExact, [Next]_vars
  PROVE  OrderIsExact'
<1>1. SUFFICES ASSUME Orderable', last'.op \in {"compare", "max", "min"}
               PROVE  OrderIsExact'
  BY DEF OrderIsExact
<1>2. "set" \in DOMAIN last' /\ last'.op # "tonumber"
  BY <1>1 DEF Orderable, FiniteOperands, Computed
<1>3. CASE Call2
  <2>1. PICK op \in Binary, r \in Arguments :
             Return(op, r.dn, Zero, r.status,
                    Apply2(op, acc, r.dn, SetStatus(dc, r.status)))
    BY <1>3 DEF Call2
  <2>2. PICK rhs, set, res : /\ rhs = r.dn /\ set = SetStatus(dc, r.status)
                             /\ res = Apply2(op, acc, rhs, set)
    BY Zenon
  <2>3. last' = [ op |-> op, lhs |-> acc, rhs |-> rhs, fhs |-> Zero, set |-> dc,
                  dn |-> res.dn, status |-> res.status ]
    BY <2>1, <2>2 DEF Return
  <2>4. /\ last'.op = op /\ last'.lhs = acc /\ last'.rhs = rhs /\ last'.set = dc
        /\ last'.dn = res.dn /\ last'.status = res.status
    BY <2>3
  <2>5. /\ op \in {"compare", "max", "min"} /\ IsFinite(acc) /\ IsFinite(rhs)
        /\ op = "compare" \/ HasRoom(dc)
    BY <1>1, <2>4, Zenon DEF Orderable
  <2>6. PICK order : order = OrderReference(acc, rhs)
    BY Zenon
  <2>7. /\ op = "compare" => res = [ dn |-> SignNumber(order), status |-> {} ]
        /\ op = "max" => IsBetter(res, order, acc, rhs, NumberMax(rhs, acc, dc), dc)
        /\ op = "min" => IsBetter(res, -order, acc, rhs, NumberMin(rhs, acc, dc), dc)
    BY <2>2, <2>5, <2>6, ReturnIsOrdered, Zenon
  <2>8. IsResult(res)
    BY <2>2, <2>5, OrderReturns
  <2>9. Returned' = res
    BY <2>4, <2>8, Zenon DEF Returned, IsResult
  <2>10. CASE op = "compare"
    BY <2>4, <2>6, <2>7, <2>9, <2>10, Zenon DEF OrderIsExact
  <2>11. CASE op = "max"
    BY <2>4, <2>6, <2>7, <2>9, <2>11 DEF OrderIsExact
  <2>12. CASE op = "min"
    BY <2>4, <2>6, <2>7, <2>9, <2>12 DEF OrderIsExact
  <2> QED BY <2>5, <2>10, <2>11, <2>12
<1>4. CASE Call1 \/ Call3
  <2>1. PICK op, r, f, flags, res : op \in Unary \cup Ternary /\ Return(op, r, f, flags, res)
    BY <1>4 DEF Call1, Call3
  <2>2. last'.op = op
    BY <2>1 DEF Return
  <2> QED BY <1>1, <2>1, <2>2 DEF Unary, Ternary
<1>5. CASE Convert \/ Relate \/ Ask \/ Set \/ SetFails \/ SetDefault \/ SetStatusString
  BY <1>2, <1>5, LeavesNoResult
<1>6. CASE UNCHANGED vars
  BY <1>6 DEF vars, OrderIsExact, Orderable, FiniteOperands, Computed, Returned
<1> QED BY <1>3, <1>4, <1>5, <1>6 DEF Next

\* Every comparison and every extremum of a script is that of the exact values.
THEOREM SessionOrdersExactly == Spec => []OrderIsExact
<1>1. Init => OrderIsExact
  BY DEF Init, NoCall, OrderIsExact, Orderable, FiniteOperands, Computed
<1> QED BY <1>1, OrderNext, TrapsStayOff, ContextStaysInRange, PTL DEF Spec
=============================================================================
