----------------------------- MODULE AssetsProofs ------------------------------
(***************************************************************************)
(* What the ids of an asset inventory mean and what its running count is,  *)
(* for every number of callers, every size and every limit.                *)
(***************************************************************************)
EXTENDS Assets, Counting, FiniteSetTheorems, TLAPS

(* Ids grow: every row was told to its caller, and nothing told, so        *)
(* nothing kept, is beyond next_id.                                        *)
ToldOnce ==
  /\ next_id \in Nat
  /\ \A id \in DOMAIN told : id \in Nat /\ id <= next_id
  /\ DOMAIN items \subseteq DOMAIN told
  /\ \A id \in DOMAIN items : items[id].number = told[id]

PinTyped == pin \in [Callers -> Nat]

RowsWithinLimit ==
  /\ IsFiniteSet(DOMAIN items)
  /\ Cardinality(DOMAIN items) <= MaxItems

(* The rows have ids and lengths, the blobs about to be inserted lengths,  *)
(* and the running count is the rows' lengths, within the limit.           *)
BytesCounted ==
  /\ DOMAIN items \subseteq Ids
  /\ \A id \in DOMAIN items : items[id].len \in Nat
  /\ \A c \in Callers : holding[c].len \in Nat
  /\ holding = [c \in Callers |-> holding[c]]
  /\ bytes = HeldUpto[MaxId]
  /\ bytes \in Nat /\ bytes <= MaxBytes

IInv == ToldOnce /\ PinTyped /\ PinnedRowStays /\ RowsWithinLimit

-------------------------------------------------------------------------------
LEMMA InitEstablishes == Init => IInv
<1> SUFFICES ASSUME Init PROVE IInv
  OBVIOUS
<1>1. DOMAIN items = {} /\ DOMAIN told = {}
  BY DEF Init
<1>2. ToldOnce /\ PinTyped /\ PinnedRowStays
  BY <1>1 DEF Init, ToldOnce, PinTyped, PinnedRowStays
<1>3. RowsWithinLimit
  BY <1>1, FS_EmptySet, AssetsAssumption DEF RowsWithinLimit
<1> QED BY <1>2, <1>3 DEF IInv

(* Making a blob and refusing one leave the rows and the pins alone. *)
LEMMA RowsUntouched ==
  ASSUME IInv, UNCHANGED <<next_id, items, pin, told>>
  PROVE  IInv'
<1>1. ToldOnce' /\ PinTyped'
  BY DEF IInv, ToldOnce, PinTyped
<1>2. PinnedRowStays' /\ RowsWithinLimit'
  BY DEF IInv, PinnedRowStays, RowsWithinLimit
<1> QED BY <1>1, <1>2 DEF IInv

(* The row inserted takes an id nobody was told before. *)
LEMMA InsertIsNew ==
  ASSUME IInv, NEW c \in Callers, Insert(c)
  PROVE  /\ NewId \notin DOMAIN told /\ NewId \notin DOMAIN items
         /\ DOMAIN items' = DOMAIN items \cup {NewId}
         /\ DOMAIN told' = DOMAIN told \cup {NewId}
         /\ items'[NewId].number = told'[NewId]
         /\ \A id \in DOMAIN items : items'[id] = items[id]
         /\ \A id \in DOMAIN told : told'[id] = told[id]
<1>1. NewId \notin DOMAIN told
  BY DEF IInv, ToldOnce, NewId
<1>2. NewId \notin DOMAIN items
  BY <1>1 DEF IInv, ToldOnce
<1> QED BY <1>1, <1>2 DEF Insert

LEMMA InsertPreserves ==
  ASSUME IInv, NEW c \in Callers, Insert(c)
  PROVE  IInv'
<1>1. ToldOnce'
  <2>1. next_id' = next_id + 1 /\ next_id \in Nat
    BY DEF Insert, NewId, IInv, ToldOnce
  <2>2. \A id \in DOMAIN told' : id \in Nat /\ id <= next_id'
    <3> SUFFICES ASSUME NEW id \in DOMAIN told'
                 PROVE  id \in Nat /\ id <= next_id'
      OBVIOUS
    <3>1. id \in DOMAIN told \/ id = next_id + 1
      BY InsertIsNew DEF NewId
    <3> QED BY <2>1, <3>1 DEF IInv, ToldOnce
  <2>3. DOMAIN items' \subseteq DOMAIN told'
    BY InsertIsNew DEF IInv, ToldOnce
  <2>4. \A id \in DOMAIN items' : items'[id].number = told'[id]
    BY InsertIsNew DEF IInv, ToldOnce
  <2> QED BY <2>1, <2>2, <2>3, <2>4 DEF ToldOnce
<1>2. PinTyped'
  BY DEF Insert, IInv, PinTyped
<1>3. PinnedRowStays'
  BY InsertIsNew DEF Insert, IInv, PinnedRowStays
<1>4. RowsWithinLimit'
  <2>1. /\ IsFiniteSet(DOMAIN items)
        /\ Cardinality(DOMAIN items) \in Nat
        /\ Cardinality(DOMAIN items) < MaxItems
    <3>1. IsFiniteSet(DOMAIN items) /\ Cardinality(DOMAIN items) \in Nat
      BY FS_CardinalityType DEF IInv, RowsWithinLimit
    <3>2. ~(Cardinality(DOMAIN items) >= MaxItems)
      BY DEF Insert, Full
    <3> QED BY <3>1, <3>2, AssetsAssumption
  <2>2. /\ IsFiniteSet(DOMAIN items')
        /\ Cardinality(DOMAIN items') = Cardinality(DOMAIN items) + 1
    BY <2>1, InsertIsNew, FS_AddElement
  <2> QED BY <2>1, <2>2, AssetsAssumption DEF RowsWithinLimit
<1> QED BY <1>1, <1>2, <1>3, <1>4 DEF IInv

(* A removal drops one row nobody is sending and leaves what was told. *)
LEMMA RemovePreserves ==
  ASSUME IInv, NEW id \in DOMAIN items, RemoveRow(id), UNCHANGED <<next_id, pin, told>>
  PROVE  IInv'
<1>1. /\ DOMAIN items' = DOMAIN items \ {id}
      /\ \A other \in DOMAIN items' : items'[other] = items[other]
  BY DEF RemoveRow, Restrict
<1>2. ToldOnce' /\ PinTyped'
  BY <1>1 DEF IInv, ToldOnce, PinTyped
<1>3. PinnedRowStays'
  BY <1>1 DEF IInv, PinnedRowStays, RemoveRow, Pinned
<1>4. RowsWithinLimit'
  <2>1. IsFiniteSet(DOMAIN items) /\ Cardinality(DOMAIN items) <= MaxItems
    BY DEF IInv, RowsWithinLimit
  <2>2. /\ IsFiniteSet(DOMAIN items')
        /\ Cardinality(DOMAIN items') \in Nat /\ Cardinality(DOMAIN items) \in Nat
        /\ Cardinality(DOMAIN items') <= Cardinality(DOMAIN items)
    <3>1. DOMAIN items' \subseteq DOMAIN items
      BY <1>1
    <3>2. /\ IsFiniteSet(DOMAIN items')
          /\ Cardinality(DOMAIN items') <= Cardinality(DOMAIN items)
      BY <2>1, <3>1, FS_Subset
    <3> QED BY <2>1, <3>2, FS_CardinalityType
  <2> QED BY <2>1, <2>2, AssetsAssumption DEF RowsWithinLimit
<1> QED BY <1>2, <1>3, <1>4 DEF IInv

LEMMA NextPreserves == IInv /\ [Next]_vars => IInv'
<1> SUFFICES ASSUME IInv, [Next]_vars PROVE IInv'
  OBVIOUS
<1>1. ASSUME NEW c \in Callers, Attach(c) \/ Register(c) \/ InsertRefused(c)
      PROVE  IInv'
  BY <1>1, RowsUntouched DEF Attach, Register, MakeBlob, InsertRefused
<1>2. ASSUME NEW c \in Callers, Insert(c) PROVE IInv'
  BY <1>2, InsertPreserves
<1>3. ASSUME NEW c \in Callers, Fetch(c) \/ CallOver(c) PROVE IInv'
  <2>1. UNCHANGED <<next_id, items, told>>
    BY <1>3 DEF Fetch, CallOver
  <2>2. ToldOnce' /\ RowsWithinLimit'
    BY <2>1 DEF IInv, ToldOnce, RowsWithinLimit
  <2>3. \E id \in DOMAIN items \cup {0} : pin' = [pin EXCEPT ![c] = id]
    BY <1>3 DEF Fetch, CallOver
  <2>4. PICK id \in DOMAIN items \cup {0} : pin' = [pin EXCEPT ![c] = id]
    BY <2>3
  <2>5. id \in Nat
    BY <2>4 DEF IInv, ToldOnce
  <2>6. PinTyped'
    BY <2>4, <2>5 DEF IInv, PinTyped
  <2>7. PinnedRowStays'
    BY <2>1, <2>4 DEF IInv, PinTyped, PinnedRowStays
  <2> QED BY <2>2, <2>6, <2>7 DEF IInv
<1>4. CASE Remove
  <2>1. PICK id \in DOMAIN items : RemoveRow(id)
    BY <1>4 DEF Remove
  <2>2. UNCHANGED <<next_id, pin, told>>
    BY <1>4 DEF Remove
  <2> QED BY <2>1, <2>2, RemovePreserves
<1>5. CASE Rejected \/ UNCHANGED vars
  BY <1>5, RowsUntouched DEF Rejected, vars
<1> QED BY <1>1, <1>2, <1>3, <1>4, <1>5 DEF Next

-------------------------------------------------------------------------------
(* HeldUpto sums the weights of the ids. *)
LEMMA HeldSums == Sums(HeldUpto, Weight, MaxId)
<1>1. MaxId \in Nat BY AssetsAssumption
<1>2. PICK f : Sums(f, Weight, MaxId) BY <1>1, SumsExist
<1>3. HeldUpto = [id \in 0 .. MaxId |-> IF id = 0 THEN 0 ELSE HeldUpto[id - 1] + Weight[id]]
  BY <1>2 DEF HeldUpto, Sums
<1> QED BY <1>3 DEF Sums

LEMMA HeldSumsNext == Sums(HeldUpto', Weight', MaxId)
<1>1. Sums(HeldUpto, Weight, MaxId)' BY HeldSums, PTL
<1> QED BY <1>1 DEF Sums

LEMMA WeightsAreNumbers ==
  ASSUME \A id \in DOMAIN items : items[id].len \in Nat
  PROVE  \A id \in 1 .. MaxId : Weight[id] \in Nat
BY DEF Weight

(* An empty inventory weighs nothing. *)
LEMMA NothingHeld == ASSUME DOMAIN items = {} PROVE HeldUpto[MaxId] = 0
<1> DEFINE zeros == [id \in 0 .. MaxId |-> 0]
<1>1. MaxId \in Nat BY AssetsAssumption
<1>2. Sums(zeros, zeros, MaxId)
  <2>1. zeros = [id \in 0 .. MaxId |-> IF id = 0 THEN 0 ELSE zeros[id - 1] + zeros[id]]
    BY <1>1
  <2> QED BY <2>1 DEF Sums
<1>3. \A id \in 1 .. MaxId : Weight[id] = zeros[id] BY <1>1 DEF Weight
<1> HIDE DEF zeros
<1>4. HeldUpto[MaxId] = zeros[MaxId] BY <1>1, <1>2, <1>3, HeldSums, SumsAgree
<1> QED BY <1>1, <1>4 DEF zeros

(* One row more or less changes the count by its length. *)
LEMMA OneRowChanged ==
  ASSUME NEW id \in Ids,
         \A other \in DOMAIN items : items[other].len \in Nat,
         \A other \in DOMAIN items' : items'[other].len \in Nat,
         \A other \in Ids \ {id} : Weight[other] = Weight'[other]
  PROVE  HeldUpto[MaxId] + Weight'[id] = HeldUpto'[MaxId] + Weight[id]
<1>1. MaxId \in Nat /\ id \in 1 .. MaxId BY AssetsAssumption DEF Ids
<1>2. \A other \in 1 .. MaxId : Weight[other] \in Nat BY WeightsAreNumbers
<1>3. \A other \in 1 .. MaxId : Weight'[other] \in Nat BY DEF Weight
<1>4. \A other \in 1 .. MaxId : other # id => Weight[other] = Weight'[other] BY DEF Ids
<1>5. \A f, g, a, b :
        /\ Sums(f, a, MaxId) /\ \A i \in 1 .. MaxId : a[i] \in Nat
        /\ Sums(g, b, MaxId) /\ \A i \in 1 .. MaxId : b[i] \in Nat
        /\ \A i \in 1 .. MaxId : i # id => a[i] = b[i]
        => f[MaxId] + b[id] = g[MaxId] + a[id]
  BY <1>1, SumsDiffer
<1> QED BY <1>2, <1>3, <1>4, <1>5, HeldSums, HeldSumsNext

LEMMA CountStarts == Init => BytesCounted
<1> SUFFICES ASSUME Init PROVE BytesCounted
  OBVIOUS
<1>1. DOMAIN items = {} BY DEF Init
<1>2. \A c \in Callers : holding[c].len = 0 BY DEF Init, NoBlob
<1>3. holding = [c \in Callers |-> holding[c]] BY DEF Init
<1>4. bytes = HeldUpto[MaxId] BY <1>1, NothingHeld DEF Init
<1> QED BY <1>1, <1>2, <1>3, <1>4, AssetsAssumption DEF Init, BytesCounted

LEMMA InsertCounts ==
  ASSUME IInv, BytesCounted, NEW c \in Callers, Insert(c)
  PROVE  BytesCounted'
<1> DEFINE len == holding[c].len
<1>1. len \in Nat /\ bytes \in Nat /\ MaxBytes \in Nat
  BY AssetsAssumption DEF BytesCounted
<1>2. bytes + len \in Nat /\ bytes + len <= MaxBytes
  <2>1. ~(len > MaxBytes) /\ ~(bytes > MaxBytes - len) BY DEF Insert, Full
  <2> HIDE DEF len
  <2> QED BY <1>1, <2>1
<1>3. NewId \in Ids
  BY AssetsAssumption DEF Insert, NewId, IInv, ToldOnce, Ids
<1>4. DOMAIN items' = DOMAIN items \cup {NewId} /\ NewId \notin DOMAIN items
      /\ \A id \in DOMAIN items : items'[id] = items[id]
  BY InsertIsNew
<1>5. items'[NewId] = holding[c] BY DEF Insert
<1>6. \A id \in DOMAIN items' : items'[id].len \in Nat
  BY <1>1, <1>4, <1>5 DEF BytesCounted
<1>7. \A id \in Ids \ {NewId} : Weight[id] = Weight'[id]
  BY <1>4 DEF Weight, Ids
<1>8. Weight[NewId] = 0 /\ Weight'[NewId] = len
  BY <1>3, <1>4, <1>5 DEF Weight, Ids
<1>9. bytes' = HeldUpto'[MaxId]
  <2>1. HeldUpto[MaxId] + Weight'[NewId] = HeldUpto'[MaxId] + Weight[NewId]
    BY <1>3, <1>6, <1>7, OneRowChanged DEF BytesCounted
  <2>2. HeldUpto'[MaxId] \in Nat
    BY <1>6, AssetsAssumption, HeldSumsNext, SumsAreNumbers DEF Weight
  <2>3. bytes' = bytes + len /\ bytes = HeldUpto[MaxId] BY DEF Insert, BytesCounted
  <2> HIDE DEF len
  <2> QED BY <1>1, <1>8, <2>1, <2>2, <2>3
<1>10. \A other \in Callers : holding'[other].len \in Nat
  BY DEF Insert, BytesCounted, NoBlob
<1>11. holding' = [other \in Callers |-> holding'[other]]
  BY DEF Insert, BytesCounted
<1>12. bytes' \in Nat /\ bytes' <= MaxBytes
  BY <1>2 DEF Insert
<1>13. DOMAIN items' \subseteq Ids BY <1>3, <1>4 DEF BytesCounted
<1> QED BY <1>6, <1>9, <1>10, <1>11, <1>12, <1>13 DEF BytesCounted

LEMMA RemoveCounts ==
  ASSUME BytesCounted, NEW id \in DOMAIN items, RemoveRow(id), UNCHANGED holding
  PROVE  BytesCounted'
<1> DEFINE len == items[id].len
<1>1. len \in Nat /\ bytes \in Nat /\ MaxBytes \in Nat /\ id \in Ids
  BY AssetsAssumption DEF BytesCounted
<1>2. /\ DOMAIN items' = DOMAIN items \ {id}
      /\ \A other \in DOMAIN items' : items'[other] = items[other]
  BY DEF RemoveRow, Restrict
<1>3. \A other \in DOMAIN items' : items'[other].len \in Nat
  BY <1>2 DEF BytesCounted
<1>4. \A other \in Ids \ {id} : Weight[other] = Weight'[other]
  BY <1>2 DEF Weight, Ids
<1>5. Weight[id] = len /\ Weight'[id] = 0
  BY <1>1, <1>2 DEF Weight, Ids
<1>6. HeldUpto[MaxId] + Weight'[id] = HeldUpto'[MaxId] + Weight[id]
  BY <1>1, <1>3, <1>4, OneRowChanged DEF BytesCounted
<1>7. HeldUpto'[MaxId] \in Nat
  BY <1>3, AssetsAssumption, HeldSumsNext, SumsAreNumbers DEF Weight
<1>8. bytes' = bytes - len /\ bytes = HeldUpto[MaxId] /\ bytes <= MaxBytes
  BY DEF RemoveRow, BytesCounted
<1>9. bytes' = HeldUpto'[MaxId] /\ bytes' \in Nat /\ bytes' <= MaxBytes
  <2> HIDE DEF len
  <2> QED BY <1>1, <1>5, <1>6, <1>7, <1>8
<1>10. DOMAIN items' \subseteq Ids BY <1>2 DEF BytesCounted
<1> QED BY <1>3, <1>9, <1>10 DEF BytesCounted

LEMMA StepCounts == IInv /\ BytesCounted /\ [Next]_vars => BytesCounted'
<1> SUFFICES ASSUME IInv, BytesCounted, [Next]_vars PROVE BytesCounted'
  OBVIOUS
<1>1. ASSUME UNCHANGED <<bytes, items>>, \A c \in Callers : holding'[c].len \in Nat,
             holding' = [c \in Callers |-> holding'[c]]
      PROVE  BytesCounted'
  <2>1. Weight' = Weight BY <1>1 DEF Weight
  <2>2. HeldUpto' = HeldUpto BY <2>1 DEF HeldUpto
  <2> QED BY <1>1, <2>2 DEF BytesCounted
<1>2. ASSUME NEW c \in Callers, Attach(c) \/ Register(c) PROVE BytesCounted'
  <2>1. PICK len \in BlobSizes : MakeBlob(c, len) BY <1>2 DEF Attach, Register
  <2>2. len \in Nat BY AssetsAssumption
  <2>3. holding' = [holding EXCEPT ![c] = [number |-> made + 1, len |-> len]]
    BY <2>1 DEF MakeBlob
  <2> QED BY <1>1, <2>1, <2>2, <2>3 DEF MakeBlob, BytesCounted
<1>3. ASSUME NEW c \in Callers, InsertRefused(c) PROVE BytesCounted'
  BY <1>1, <1>3 DEF InsertRefused, NoBlob, BytesCounted
<1>4. ASSUME NEW c \in Callers, Insert(c) PROVE BytesCounted'
  BY <1>4, InsertCounts
<1>5. ASSUME NEW c \in Callers, Fetch(c) \/ CallOver(c) PROVE BytesCounted'
  BY <1>1, <1>5 DEF Fetch, CallOver, BytesCounted
<1>6. CASE Remove
  <2>1. PICK id \in DOMAIN items : RemoveRow(id) BY <1>6 DEF Remove
  <2>2. UNCHANGED holding BY <1>6 DEF Remove
  <2> QED BY <2>1, <2>2, RemoveCounts
<1>7. CASE Rejected \/ UNCHANGED vars
  BY <1>1, <1>7 DEF Rejected, vars, BytesCounted
<1> QED BY <1>2, <1>3, <1>4, <1>5, <1>6, <1>7 DEF Next

THEOREM Inductive == Spec => []IInv
<1> QED BY InitEstablishes, NextPreserves, PTL DEF Spec

(* A row whose blob a capability call is sending stays until it is over,   *)
(* whatever the other callers insert and remove: remove refuses a pinned   *)
(* blob under the mutex that fetch_for_capability pinned it under.         *)
THEOREM PinnedRowsStay == Spec => []PinnedRowStays
<1>1. IInv => PinnedRowStays
  BY DEF IInv
<1> QED BY <1>1, Inductive, PTL

(* The inventory never holds more rows than MAX_ITEMS nor more bytes than  *)
(* MAX_BYTES, though every caller makes its blob before it takes the mutex *)
(* (insert); and its running count is the bytes held, so that remove never *)
(* takes more from it than is there.                                       *)
THEOREM CapacityKept == Spec => []WithinCapacity
<1>1. IInv /\ BytesCounted => WithinCapacity
  BY DEF IInv, RowsWithinLimit, BytesCounted, WithinCapacity
<1>2. Spec => [](IInv /\ BytesCounted)
  BY InitEstablishes, NextPreserves, CountStarts, StepCounts, PTL DEF Spec
<1> QED BY <1>1, <1>2, PTL

(* An id a script was told names that asset or none for good: ids are      *)
(* never given out again, and the last one refuses instead of wrapping.    *)
THEOREM IdsKeepTheirMeaning == Spec => IdKeepsItsMeaning
<1> DEFINE Keeps ==
      \A id \in DOMAIN told : id \in DOMAIN items' => items'[id].number = told[id]
<1>1. IInv /\ IInv' /\ [Next]_vars => Keeps
  <2> SUFFICES ASSUME IInv, IInv', [Next]_vars, NEW id \in DOMAIN told,
                      id \in DOMAIN items'
               PROVE  items'[id].number = told[id]
    OBVIOUS
  <2>1. items'[id].number = told'[id]
    BY DEF IInv, ToldOnce
  <2>2. ASSUME NEW c \in Callers, Insert(c) PROVE told'[id] = told[id]
    BY <2>2, InsertIsNew
  <2>3. ASSUME NEW c \in Callers,
               \/ Attach(c) \/ Register(c) \/ InsertRefused(c)
               \/ Fetch(c) \/ CallOver(c)
        PROVE  told'[id] = told[id]
    BY <2>3 DEF Attach, Register, MakeBlob, InsertRefused, Fetch, CallOver
  <2>4. ASSUME Remove \/ Rejected \/ UNCHANGED vars PROVE told'[id] = told[id]
    BY <2>4 DEF Remove, Rejected, vars
  <2> QED BY <2>1, <2>2, <2>3, <2>4 DEF Next
<1>2. IInv /\ IInv' /\ [Next]_vars => [Keeps]_vars
  BY <1>1
<1>3. Spec => [][Keeps]_vars
  <2>1. Spec => []IInv
    BY Inductive
  <2>2. Spec => [][Next]_vars
    BY DEF Spec
  <2> HIDE DEF Keeps
  <2> QED BY <1>2, <2>1, <2>2, PTL
<1> QED BY <1>3 DEF IdKeepsItsMeaning
===============================================================================
