-------------------------------- MODULE Assets ---------------------------------
(***************************************************************************)
(* The asset inventory of one agent entry: rows numbered in the order they *)
(* were inserted, each holding a blob on disk.  `:asset attach-base64`     *)
(* fills it from the console and provider answers fill it from a command's *)
(* leg; a capability call pins the blobs it sends and a script may remove  *)
(* what is not pinned.  Blobs are made before the inventory's mutex is     *)
(* taken; what a caller does under the mutex is one step.  The callers     *)
(* share the inventory through an Arc and may all overlap here, which is   *)
(* more than the console's one command at a time lets them.                *)
(***************************************************************************)
EXTENDS FiniteSets, Functions, AssetsLimits

VARIABLES
  next_id,  (* Inventory.next_id: the id given last                        *)
  bytes,    (* Inventory.bytes                                             *)
  items,    (* Inventory.items: id -> blob                                 *)
  made,     (* blobs made so far; a blob is [number, len]                  *)
  holding,  (* per caller: the blob it is about to insert, or NoBlob       *)
  pin,      (* per caller: the id whose blob it has cloned, 0 if none      *)
  told      (* id -> number of the blob its caller was told it names       *)

vars == <<next_id, bytes, items, made, holding, pin, told>>

Ids == 1 .. MaxId
Blobs == [number : 1 .. MaxBlobs, len : BlobSizes]
NoBlob == [number |-> 0, len |-> 0]

Init ==
  /\ next_id = 0 /\ bytes = 0 /\ items = <<>> /\ made = 0
  /\ holding = [c \in Callers |-> NoBlob]
  /\ pin = [c \in Callers |-> 0]
  /\ told = <<>>

(* A caller with a clone of the row's blob: DiskBlob::is_pinned. *)
Pinned(id) == \E c \in Callers : pin[c] = id

MakeBlob(c, len) ==
  /\ holding[c] = NoBlob
  /\ made < MaxBlobs
  /\ made' = made + 1
  /\ holding' = [holding EXCEPT ![c] = [number |-> made + 1, len |-> len]]
  /\ UNCHANGED <<next_id, bytes, items, pin, told>>

(* attach_base64 of a literal within its limits.                           *)
Attach(c) == \E len \in BlobSizes : len <= MaxDecoded /\ MakeBlob(c, len)

(* register of a provider's descriptor. *)
Register(c) == \E len \in BlobSizes : len <= MaxBytes /\ MakeBlob(c, len)

(* A bad MIME type or literal, one over the limits, a blob the disk does   *)
(* not take, an unknown or pinned id to remove: refused, nothing changes.  *)
Rejected == UNCHANGED vars

Full(len) ==
  \/ Cardinality(DOMAIN items) >= MaxItems
  \/ len > MaxBytes
  \/ bytes > MaxBytes - len

(* Fault: gives a removed row's id out again. *)
LowestFreeId == CHOOSE id \in 1 .. MaxId + 1 :
  id \notin DOMAIN items /\ \A low \in 1 .. id - 1 : low \in DOMAIN items

NewId == next_id + 1

(* insert, under the mutex: a row, or BlobError::Capacity. *)
Insert(c) ==
  /\ holding[c] # NoBlob
  /\ ~Full(holding[c].len)
  /\ NewId <= MaxId
  /\ next_id' = NewId
  /\ bytes' = bytes + holding[c].len
  /\ items' = [id \in DOMAIN items \cup {NewId} |->
                 IF id = NewId THEN holding[c] ELSE items[id]]
  /\ told' = [id \in DOMAIN told \cup {NewId} |->
                IF id = NewId THEN holding[c].number ELSE told[id]]
  /\ holding' = [holding EXCEPT ![c] = NoBlob]
  /\ UNCHANGED <<made, pin>>

InsertRefused(c) ==
  /\ holding[c] # NoBlob
  /\ Full(holding[c].len) \/ NewId > MaxId
  /\ holding' = [holding EXCEPT ![c] = NoBlob]
  /\ UNCHANGED <<next_id, bytes, items, made, pin, told>>

(* fetch_for_capability clones the blob; the clone is dropped when the     *)
(* call it was fetched for is over.                                        *)
Fetch(c) ==
  /\ pin[c] = 0
  /\ \E id \in DOMAIN items : pin' = [pin EXCEPT ![c] = id]
  /\ UNCHANGED <<next_id, bytes, items, made, holding, told>>

CallOver(c) ==
  /\ pin[c] # 0
  /\ pin' = [pin EXCEPT ![c] = 0]
  /\ UNCHANGED <<next_id, bytes, items, made, holding, told>>

(* Faults: removes a row in use, or keeps counting it. *)
RemoveInUse(id) ==
  /\ items' = Restrict(items, DOMAIN items \ {id})
  /\ bytes' = bytes - items[id].len
RemoveStillCounted(id) ==
  /\ ~Pinned(id)
  /\ items' = Restrict(items, DOMAIN items \ {id})
  /\ bytes' = bytes

RemoveRow(id) ==
  /\ ~Pinned(id)
  /\ items' = Restrict(items, DOMAIN items \ {id})
  /\ bytes' = bytes - items[id].len

Remove ==
  /\ \E id \in DOMAIN items : RemoveRow(id)
  /\ UNCHANGED <<next_id, made, holding, pin, told>>

Next ==
  \/ \E c \in Callers :
       \/ Attach(c) \/ Register(c) \/ Insert(c) \/ InsertRefused(c)
       \/ Fetch(c) \/ CallOver(c)
  \/ Remove \/ Rejected

Spec == Init /\ [][Next]_vars
-------------------------------------------------------------------------------
(* The bytes of the rows up to an id. *)
Weight == [id \in 1 .. MaxId |-> IF id \in DOMAIN items THEN items[id].len ELSE 0]
HeldUpto[id \in 0 .. MaxId] ==
  IF id = 0 THEN 0 ELSE HeldUpto[id - 1] + Weight[id]

(* The inventory never holds more rows, nor more bytes on disk, than the   *)
(* 16 items and 64 MiB promised, however its callers overlap; and its      *)
(* running count is the bytes held, so that a long session of inserts and  *)
(* removals neither leaks capacity nor underflows it.                      *)
WithinCapacity ==
  /\ Cardinality(DOMAIN items) <= MaxItems
  /\ bytes = HeldUpto[MaxId]
  /\ bytes <= MaxBytes

(* An id a script was told names that asset or none, never another one,    *)
(* whatever was removed and inserted in between.                           *)
IdKeepsItsMeaning ==
  [][\A id \in DOMAIN told : id \in DOMAIN items' => items'[id].number = told[id]]_vars

(* A row whose blob a capability call is sending stays until it is over.   *)
PinnedRowStays ==
  \A c \in Callers : pin[c] # 0 => pin[c] \in DOMAIN items
===============================================================================
