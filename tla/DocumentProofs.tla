--------------------------- MODULE DocumentProofs ---------------------------
(***************************************************************************)
(* Theorems about what a mapping document becomes.  A stub: MappingDocument*)
(* for documents with any fields and values.  The times of its response:   *)
(* Delay, for ints and milliseconds of any size.                           *)
(***************************************************************************)
EXTENDS MappingInputs, TLAPS

-----------------------------------------------------------------------------
(* Documents and stubs.                                                    *)

\* Every valid document gets a valid id, the one of the path if there is one.
LEMMA IdOfValid ==
    ASSUME NEW d, d.id \in Ids \cup {"absent", "null", ""}, NEW id \in Ids \cup {""}
    PROVE  /\ idOf(d, id) \in Ids
           /\ id # "" => idOf(d, id) = id
BY MappingDocumentAssumption DEF idOf, Given

\* The document of a stub differs from the one that made it in the id only.
LEMMA RawIsDocument ==
    ASSUME NEW Fields, NEW Values, NEW d \in [Fields -> Values], "id" \in Fields,
           NEW i, NEW raw, raw = [d EXCEPT !.id = i]
    PROVE  /\ raw.id = i
           /\ \A f \in Fields \ {"id"} : raw[f] = d[f]
           /\ \A j : [raw EXCEPT !.id = j] = [d EXCEPT !.id = j]
OBVIOUS

\* Of what a document is parsed to, only the id and the document depend on the
\* id of the path.
Under(d, i) == [d EXCEPT !.id = i]
Exchanged(m, i, raw) == [m EXCEPT !.id = i, !.raw = raw]

LEMMA ParseUnderId ==
    ASSUME NEW d, NEW id, NEW other
    PROVE  parse(d, other) = Exchanged(parse(d, id), idOf(d, other), Under(d, idOf(d, other)))
<1> DEFINE old == parse(d, id)
           new == parse(d, other)
           i == idOf(d, other)
           raw == [d EXCEPT !.id = i]
           F == {"id", "name", "persistent", "priority", "scenario", "request", "response", "raw"}
<1>1. old = [f \in F |-> old[f]] /\ new = [f \in F |-> new[f]]
  BY DEF parse
<1>2. new.id = i /\ new.raw = raw
  BY DEF parse
<1>3. /\ old.name = new.name /\ old.persistent = new.persistent /\ old.priority = new.priority
      /\ old.scenario = new.scenario /\ old.request = new.request
      /\ old.response = new.response
  BY DEF parse
<1> HIDE DEF old, new, i, raw
<1>4. new = [old EXCEPT !.id = i, !.raw = raw]
  BY <1>1, <1>2, <1>3
<1> QED BY <1>4 DEF old, new, i, raw, Under, Exchanged

\* A stub that is exported and imported again is the same stub, whatever other
\* fields its document has.
LEMMA RoundTripOfDocument ==
    ASSUME NEW Fields, NEW Values, NEW d \in [Fields -> Values],
           documentFields \subseteq Fields, NEW id \in Ids \cup {""}
    PROVE  RoundTripOf(d, id)
<1> SUFFICES ASSUME validDocument(d)
             PROVE  LET m == parse(d, id)
                    IN /\ validDocument(marshal(m))
                       /\ parse(marshal(m), "") = m
                       /\ id # "" => m.id = id
                       /\ \A other \in Ids : parse(marshal(m), other) = WithID(m, other)
  BY DEF RoundTripOf
<1> DEFINE i == idOf(d, id)
           raw == [d EXCEPT !.id = i]
           m == parse(d, id)
<1>1. i \in Ids /\ (id # "" => i = id)
  BY IdOfValid DEF validDocument
<1>2. "id" \in Fields
  BY DEF documentFields
<1>3. /\ raw.id = i
      /\ \A f \in Fields \ {"id"} : raw[f] = d[f]
      /\ \A j : [raw EXCEPT !.id = j] = [d EXCEPT !.id = j]
  BY <1>2, RawIsDocument
<1>4. /\ raw.name = d.name /\ raw.persistent = d.persistent /\ raw.priority = d.priority
      /\ raw.scenarioName = d.scenarioName /\ raw.newScenarioState = d.newScenarioState
      /\ raw.requiredScenarioState = d.requiredScenarioState
      /\ raw.metadata = d.metadata
      /\ raw.request = d.request /\ raw.response = d.response
  BY <1>3 DEF documentFields
<1>5. m.id = i /\ m.raw = raw /\ marshal(m) = [raw EXCEPT !.id = i]
  BY DEF parse, marshal
<1>6. marshal(m) = raw
  BY <1>3, <1>5
<1>7. idOf(raw, "") = i
  BY <1>1, <1>3, MappingDocumentAssumption DEF idOf, Given
<1>8. validDocument(raw)
  BY <1>1, <1>3, <1>4 DEF validDocument
<1>9. parse(raw, "") = m
  <2>1. [raw EXCEPT !.id = i] = raw
    BY <1>3
  <2> HIDE DEF raw
  <2> QED BY <1>4, <1>5, <1>7, <2>1 DEF parse
<1>10. ASSUME NEW other \in Ids PROVE parse(raw, other) = WithID(m, other)
  <2>1. idOf(raw, other) = other
    BY <1>10, MappingDocumentAssumption DEF idOf
  <2>2. WithID(m, other) = Exchanged(m, other, Under(raw, other))
    BY <1>5 DEF WithID, parse, Exchanged, Under
  <2> HIDE DEF m, raw
  <2>3. parse(raw, other) = Exchanged(m, other, Under(raw, other))
    <3>1. parse(raw, other) = Exchanged(parse(raw, ""), idOf(raw, other), Under(raw, idOf(raw, other)))
      BY ParseUnderId
    <3> QED BY <1>9, <2>1, <3>1
  <2> QED BY <2>2, <2>3
<1> HIDE DEF m, raw
<1> QED BY <1>1, <1>5, <1>6, <1>8, <1>9, <1>10 DEF m

\* A template that looks at the body of the request is given it.
LEMMA TemplateHasBodyOfDocument ==
    ASSUME NEW d
    PROVE  TemplateHasBodyOf(d)
<1> SUFFICES ASSUME NEW r, looksAtRequestBody(r) PROVE getsRequestBody(r)
  BY DEF TemplateHasBodyOf
<1>1. r.body \in {<<"allCompile">>, <<"someCompile">>} /\ UsesResponseTemplate(r)
  BY DEF looksAtRequestBody
<1>2. <<"allCompile">> # <<>> /\ <<"someCompile">> # <<>>
  OBVIOUS
<1> QED BY <1>1, <1>2 DEF getsRequestBody

-----------------------------------------------------------------------------
(* Times.                                                                  *)

-----------------------------------------------------------------------------
(* Arithmetic.                                                             *)
LEMMA Remainder ==
    ASSUME NEW y \in Int, NEW m \in Nat \ {0}
    PROVE  y % m \in 0..(m - 1)
OBVIOUS

LEMMA RemainderAtMost ==
    ASSUME NEW y \in Nat, NEW m \in Nat \ {0}
    PROVE  y % m <= y
<1>1. CASE y < m
  <2>1. y % m = y
    BY <1>1
  <2> QED BY <2>1
<1>2. CASE ~ (y < m)
  BY <1>2, Remainder
<1> QED BY <1>1, <1>2

LEMMA Quotient ==
    ASSUME NEW a \in Nat, NEW b \in Nat \ {0}
    PROVE  /\ a \div b \in Nat
           /\ b * (a \div b) <= a
           /\ a < b * (a \div b) + b
OBVIOUS

LEMMA ProductMonotone ==
    ASSUME NEW i \in Nat, NEW j \in Nat, i <= j, NEW k \in Nat
    PROVE  i * k <= j * k /\ i * k \in Nat
OBVIOUS

LEMMA ProductNext ==
    ASSUME NEW i \in Nat, NEW k \in Nat
    PROVE  (i + 1) * k = i * k + k
OBVIOUS

\* Wrap yields an int, leaves an int alone, and makes no number greater.
LEMMA WrapIsInt ==
    ASSUME NEW x \in Int
    PROVE  Wrap(x) \in (-Half)..(Half - 1)
<1>1. Half \in Nat \ {0} /\ 2 * Half \in Nat \ {0} /\ x + Half \in Int
  BY DelayAssumption
<1>2. (x + Half) % (2 * Half) \in 0..(2 * Half - 1)
  BY <1>1, Remainder
<1> QED BY <1>1, <1>2 DEF Wrap

LEMMA WrapInRange ==
    ASSUME NEW x \in Int, -Half <= x, x < Half
    PROVE  Wrap(x) = x
<1> DEFINE y == x + Half
           m == 2 * Half
<1>1. y \in Nat /\ m \in Nat \ {0} /\ y < m
  BY DelayAssumption
<1>2. y % m = y
  <2> HIDE DEF y, m
  <2> QED BY <1>1
<1>3. (y % m) - Half = x
  BY <1>2, DelayAssumption
<1> QED BY <1>3 DEF Wrap

LEMMA WrapAtMost ==
    ASSUME NEW x \in Nat
    PROVE  Wrap(x) <= x
<1>1. Half \in Nat \ {0} /\ 2 * Half \in Nat \ {0} /\ x + Half \in Nat
  BY DelayAssumption
<1>2. (x + Half) % (2 * Half) <= x + Half
  BY <1>1, RemainderAtMost
<1>3. (x + Half) % (2 * Half) \in 0..(2 * Half - 1)
  BY <1>1, Remainder
<1> QED BY <1>1, <1>2, <1>3 DEF Wrap

Ints == (-Half)..(Half - 1)

LEMMA MillisecondsIsInt ==
    ASSUME NEW v \in Int
    PROVE  milliseconds(v) \in Ints
<1>1. v * Millisecond \in Int
  BY DelayAssumption
<1> QED BY <1>1, WrapIsInt DEF milliseconds, Ints

LEMMA MillisecondsAtMost ==
    ASSUME NEW v \in Nat
    PROVE  /\ v * Millisecond \in Nat
           /\ milliseconds(v) <= v * Millisecond
           /\ v * Millisecond < Half => milliseconds(v) = v * Millisecond
<1>1. v * Millisecond \in Nat /\ Half \in Nat
  BY DelayAssumption
<1> QED BY <1>1, WrapAtMost, WrapInRange DEF milliseconds

\* The fields of a definition, which are ints.
LEMMA DefinitionFields ==
    ASSUME NEW d \in Definitions
    PROVE  /\ d.fixed \in Ints /\ d.lower \in Ints /\ d.upper \in Ints /\ d.total \in Ints
           /\ d.chunks \in Nat /\ d.chunks < Half
           /\ d.distribution \in {"none", "uniform", "lognormal"}
           /\ Half \in Nat \ {0} /\ Ints \subseteq Int
BY DelayAssumption DEF Ints

-----------------------------------------------------------------------------
(* What InitialDuration draws.                                             *)

\* A uniform distribution whose choice does not panic counts its numbers right,
\* and draws none beyond its bounds.
LEMMA UniformDraws ==
    ASSUME NEW d \in Definitions, d.distribution = "uniform", Accepted(d), d.fixed = 0,
           ~ Panics(d), NEW drawn \in Uniform(d)
    PROVE  \E v \in d.lower..d.upper : drawn = milliseconds(v)
<1>1. /\ d.lower \in Nat /\ d.upper \in Nat /\ d.lower <= d.upper
      /\ d.upper < Half /\ Half \in Nat
  BY DefinitionFields DEF Accepted, Ints
<1>2. CASE d.upper <= d.lower
  BY <1>1, <1>2 DEF Uniform
<1>3. CASE d.lower < d.upper
  <2>1. UniformChoices(d) > 0
    <3>1. d.upper - d.lower + 1 \in Int
      BY <1>1
    <3>2. UniformChoices(d) \in Int
      BY <3>1, <1>1, WrapIsInt DEF UniformChoices
    <3> QED BY <1>3, <3>2 DEF Panics
  <2>2. UniformChoices(d) <= d.upper - d.lower + 1 /\ UniformChoices(d) \in Int
    <3>1. d.upper - d.lower + 1 \in Nat
      BY <1>1
    <3> QED BY <3>1, <1>1, WrapAtMost, WrapIsInt DEF UniformChoices
  <2>3. PICK k \in Intn(UniformChoices(d)) : drawn = milliseconds(Wrap(d.lower + k))
    BY <1>1, <1>3 DEF Uniform
  <2>4. k \in Nat /\ d.lower + k <= d.upper
    BY <1>1, <2>1, <2>2, <2>3 DEF Intn
  <2>5. Wrap(d.lower + k) = d.lower + k
    BY <1>1, <2>4, WrapInRange
  <2>6. d.lower + k \in d.lower..d.upper
    BY <1>1, <2>4
  <2> QED BY <2>3, <2>5, <2>6
<1> QED BY <1>1, <1>2, <1>3

\* A delay is never longer than defined, nor shorter unless it overflows.
THEOREM DelayCorrect ==
    ASSUME NEW d \in Definitions, Accepted(d)
    PROVE  DelayedAsDefined(d)
<1> SUFFICES ASSUME ~ Panics(d), d.fixed > 0 \/ d.distribution = "uniform",
                    NEW drawn \in InitialDuration(d)
             PROVE  /\ Slept(drawn) <= Longest(d)
                    /\ Fits(Longest(d)) => Shortest(d) <= drawn
  BY DEF DelayedAsDefined
<1>1. d.fixed \in Nat /\ Half \in Nat \ {0} /\ Millisecond \in Nat
  BY DefinitionFields, DelayAssumption DEF Accepted, Ints
<1>2. CASE d.fixed > 0
  <2>1. drawn = milliseconds(d.fixed) /\ Longest(d) = d.fixed * Millisecond
        /\ Shortest(d) = d.fixed * Millisecond
    BY <1>2 DEF InitialDuration, Longest, Shortest
  <2> QED BY <1>1, <2>1, MillisecondsAtMost, MillisecondsIsInt DEF Slept, Fits, Ints
<1>3. CASE d.fixed = 0 /\ d.distribution = "uniform"
  <2>1. PICK v \in d.lower..d.upper : drawn = milliseconds(v)
    BY <1>3, UniformDraws DEF InitialDuration
  <2>2. d.lower \in Nat /\ d.upper \in Nat /\ v \in Nat /\ d.lower <= v /\ v <= d.upper
    BY <1>3, DefinitionFields DEF Accepted, Ints
  <2>3. Longest(d) = d.upper * Millisecond /\ Shortest(d) = d.lower * Millisecond
    BY <1>3 DEF Longest, Shortest
  <2>4. /\ d.lower * Millisecond <= v * Millisecond
        /\ v * Millisecond <= d.upper * Millisecond
        /\ v * Millisecond \in Nat /\ d.lower * Millisecond \in Nat
        /\ d.upper * Millisecond \in Nat
    BY <1>1, <2>2, ProductMonotone
  <2>5. drawn <= v * Millisecond /\ drawn \in Int
        /\ (v * Millisecond < Half => drawn = v * Millisecond)
    BY <1>1, <2>1, <2>2, MillisecondsAtMost, MillisecondsIsInt DEF Ints
  <2> HIDE DEF Slept
  <2>6. Slept(drawn) = (IF drawn <= 0 THEN 0 ELSE drawn)
    BY DEF Slept
  <2> QED BY <1>1, <2>3, <2>4, <2>5, <2>6 DEF Fits
<1> QED BY <1>1, <1>2, <1>3

\* Only one interval makes the choice of a delay panic.
THEOREM PanicCorrect ==
    ASSUME NEW d \in Definitions, Accepted(d)
    PROVE  PanicsAtLimitOnly(d)
<1> SUFFICES ASSUME Panics(d)
             PROVE  d.fixed = 0 /\ d.lower = 0 /\ d.upper = Half - 1
  BY DEF PanicsAtLimitOnly
<1>1. /\ d.lower \in Nat /\ d.upper \in Nat /\ d.lower < d.upper /\ d.upper < Half
      /\ Half \in Nat /\ d.fixed = 0
  BY DefinitionFields DEF Accepted, Panics, Ints
<1>2. ~ (d.upper - d.lower + 1 < Half)
  <2>1. SUFFICES ASSUME d.upper - d.lower + 1 < Half PROVE FALSE
    OBVIOUS
  <2>2. UniformChoices(d) = d.upper - d.lower + 1
    BY <1>1, <2>1, WrapInRange DEF UniformChoices
  <2> QED BY <1>1, <2>2 DEF Panics
<1> QED BY <1>1, <1>2

-----------------------------------------------------------------------------
(* What the pauses add up to.                                              *)
LEMMA WritesBounded ==
    ASSUME NEW d \in Definitions, NEW bytes \in Nat
    PROVE  /\ Writes(d, bytes) \in Nat
           /\ Writes(d, bytes) <= bytes
           /\ d.chunks >= 2 => Writes(d, bytes) <= d.chunks
           /\ d.chunks \in 2..bytes => Writes(d, bytes) = d.chunks
<1>1. d.chunks \in Nat
  BY DefinitionFields
<1> QED BY <1>1 DEF Writes

\* The interval between two chunks, by the definition and as it is slept.
LEMMA IntervalDivides ==
    ASSUME NEW d \in Definitions, Accepted(d)
    PROVE  /\ Slept(Interval(d)) \in Nat
           /\ d.chunks <= 1 => Slept(Interval(d)) = 0
           /\ d.chunks >= 2 => /\ (d.chunks - 1) * Slept(Interval(d)) <= Total(d)
                               /\ Fits(Total(d)) =>
                                     Total(d) < (d.chunks - 1) * Slept(Interval(d)) + (d.chunks - 1)
<1> DEFINE t == milliseconds(d.total)
           m == d.chunks - 1
<1>1. /\ d.chunks \in Nat /\ d.total \in Nat /\ t \in Int
      /\ Total(d) \in Nat /\ t <= Total(d)
      /\ Fits(Total(d)) => t = Total(d)
  BY DefinitionFields, MillisecondsAtMost, MillisecondsIsInt DEF Accepted, Total, Fits
<1>2. CASE d.chunks <= 1
  BY <1>1, <1>2 DEF Interval, Slept
<1>3. CASE d.chunks >= 2
  <2>1. Interval(d) = Truncated(t, m) /\ m \in Nat \ {0}
    BY <1>1, <1>3 DEF Interval
  <2> HIDE DEF t, m
  <2>2. CASE t < 0
    <3>1. -t \in Nat
      BY <1>1, <2>2
    <3>2. (-t) \div m \in Nat
      BY <3>1, <2>1, Quotient
    <3>3. Interval(d) = -((-t) \div m)
      BY <2>1, <2>2 DEF Truncated
    <3>4. Slept(Interval(d)) = 0
      BY <3>2, <3>3 DEF Slept
    <3>5. m * 0 = 0 /\ ~ Fits(Total(d))
      BY <1>1, <2>1, <2>2
    <3> QED BY <1>1, <1>3, <3>4, <3>5 DEF m
  <2>3. CASE t >= 0
    <3>1. /\ Interval(d) = t \div m /\ t \div m \in Nat
          /\ m * (t \div m) <= t /\ t < m * (t \div m) + m
      BY <1>1, <2>1, <2>3, Quotient DEF Truncated
    <3>2. Slept(Interval(d)) = t \div m
      BY <3>1 DEF Slept
    <3>3. m * (t \div m) \in Nat
      BY <2>1, <3>1
    <3>4. /\ Slept(Interval(d)) \in Nat
          /\ m * Slept(Interval(d)) <= Total(d)
          /\ Fits(Total(d)) => Total(d) < m * Slept(Interval(d)) + m
      BY <1>1, <2>1, <3>1, <3>2, <3>3
    <3> QED BY <1>1, <1>3, <3>4 DEF m
  <2> QED BY <1>1, <2>2, <2>3
<1> QED BY <1>1, <1>2, <1>3

\* The pauses of a dribble add up to its total duration.
THEOREM DribbleCorrect ==
    ASSUME NEW d \in Definitions, NEW bytes \in Lengths, Accepted(d)
    PROVE  DribbleTakesTotal(d, bytes)
<1> DEFINE s == Slept(Interval(d))
           w == Writes(d, bytes)
           c == d.chunks
           t == Total(d)
           p == Pauses(d, bytes)
<1>1. bytes \in Nat
  BY DelayAssumption
<1>2. /\ w \in Nat /\ c \in Nat /\ s \in Nat /\ t \in Nat
      /\ c >= 2 => w <= c
      /\ c \in 2..bytes => w = c
  BY <1>1, DefinitionFields, WritesBounded, IntervalDivides, MillisecondsAtMost DEF Accepted, Total, Ints
<1>3. /\ c <= 1 => s = 0
      /\ c >= 2 => (c - 1) * s <= t /\ (Fits(t) => t < (c - 1) * s + (c - 1))
  BY IntervalDivides
<1>4. p = IF w = 0 THEN 0 ELSE (w - 1) * s
  BY DEF Pauses
<1> HIDE DEF s, w, c, t, p
<1>5. p <= t
  <2>1. CASE w = 0
    BY <1>2, <1>4, <2>1
  <2>2. CASE w > 0 /\ c <= 1
    <3>1. (w - 1) * 0 = 0
      BY <1>2, <2>2
    <3> QED BY <1>2, <1>3, <1>4, <2>2, <3>1
  <2>3. CASE w > 0 /\ c >= 2
    <3>1. w - 1 \in Nat /\ c - 1 \in Nat /\ w - 1 <= c - 1
      BY <1>2, <2>3
    <3>2. (w - 1) * s <= (c - 1) * s /\ (w - 1) * s \in Nat /\ (c - 1) * s \in Nat
      BY <3>1, <1>2, ProductMonotone
    <3> QED BY <1>2, <1>3, <1>4, <2>3, <3>2
  <2> QED BY <1>2, <2>1, <2>2, <2>3
<1>6. ASSUME c \in 2..bytes, Fits(t) PROVE t - p < c - 1
  <2>1. w = c /\ c >= 2
    BY <1>1, <1>2, <1>6
  <2>2. p = (c - 1) * s /\ t < (c - 1) * s + (c - 1)
    BY <1>2, <1>3, <1>4, <1>6, <2>1
  <2>3. (c - 1) * s \in Nat
    BY <1>2, <2>1
  <2> QED BY <1>2, <2>2, <2>3
<1> QED BY <1>5, <1>6 DEF DribbleTakesTotal, c, t, p

\* A response takes the time its definition says, as far as Durations reach.
THEOREM TimesCorrect ==
    ASSUME NEW d \in Definitions, NEW bytes \in Lengths
    PROVE  TimedAsDefined(d, bytes)
BY DelayCorrect, PanicCorrect, DribbleCorrect DEF TimedAsDefined

-----------------------------------------------------------------------------
(* All inputs.                                                             *)

\* An input stays a document or the times of a response.
Inputs ==
    /\ input.kind = "document" => input.document \in Documents /\ input.id \in Ids \cup {""}
    /\ input.kind = "times" => input.definition \in Definitions /\ input.length \in Lengths

LEMMA InputsStay == InputsSpec => []Inputs
<1>1. InputsInit => Inputs
  <2>1. CASE DocumentInput
    <3>1. PICK d \in Documents, id \in Ids \cup {""} :
             input = [kind |-> "document", document |-> d, id |-> id]
      BY <2>1 DEF DocumentInput
    <3>2. input.kind = "document" /\ input.document = d /\ input.id = id
      BY <3>1
    <3> QED BY <3>2 DEF Inputs
  <2>2. CASE TimesInput
    <3>1. PICK d \in Definitions, n \in Lengths :
             input = [kind |-> "times", definition |-> d, length |-> n]
      BY <2>2 DEF TimesInput
    <3>2. input.kind = "times" /\ input.definition = d /\ input.length = n
      BY <3>1
    <3> QED BY <3>2 DEF Inputs
  <2> QED BY <2>1, <2>2 DEF InputsInit
<1>2. Inputs /\ [UNCHANGED input]_input => Inputs'
  BY DEF Inputs
<1> QED BY <1>1, <1>2, PTL DEF InputsSpec

\* Every stub that is exported is accepted again as the same stub.
THEOREM RoundTripCorrect == InputsSpec => []RoundTrip
<1>1. ASSUME Inputs, input.kind = "document"
      PROVE  RoundTripOf(input.document, input.id)
  <2> DEFINE d == input.document
             F == DOMAIN d
             V == {d[f] : f \in F}
  <2>1. d \in Documents /\ input.id \in Ids \cup {""}
    BY <1>1 DEF Inputs
  <2>2. d = [f \in F |-> d[f]] /\ documentFields \subseteq F
    BY <2>1, DocumentsAssumption
  <2> HIDE DEF d
  <2>3. d \in [F -> V]
    BY <2>2
  <2> HIDE DEF F, V
  <2>4. RoundTripOf(d, input.id)
    BY <2>1, <2>2, <2>3, RoundTripOfDocument
  <2> QED BY <2>4 DEF d
<1>2. Inputs => RoundTrip
  BY <1>1 DEF RoundTrip
<1> QED BY <1>2, InputsStay, PTL

\* Every response that looks at the body of its request is given it.
THEOREM TemplateHasBodyCorrect == InputsSpec => []TemplateHasBody
<1>1. TemplateHasBody
  BY TemplateHasBodyOfDocument DEF TemplateHasBody
<1> QED BY <1>1, PTL

\* Every response takes the time its definition says.
THEOREM TimesHold == InputsSpec => []TimesAreDefined
<1>1. ASSUME Inputs, input.kind = "times"
      PROVE  TimedAsDefined(input.definition, input.length)
  <2>1. input.definition \in Definitions /\ input.length \in Lengths
    BY <1>1 DEF Inputs
  <2> QED BY <2>1, TimesCorrect
<1>2. Inputs => TimesAreDefined
  BY <1>1 DEF TimesAreDefined
<1> QED BY <1>2, InputsStay, PTL
=============================================================================
