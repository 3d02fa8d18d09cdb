---------------------------- MODULE SourceManager ----------------------------
(***************************************************************************)
(* Source managers (patchframe/data/manager.py), the accessors that name   *)
(* sources by integer id (data/accessor.py), and the operators that        *)
(* register sources: creation, make_from_dataframe, offload.               *)
(*                                                                         *)
(* A SourceDescriptor is [key, recipe]: key is the pair (source_type,      *)
(* source_id) of normalize_key, recipe its open_config.  Two descriptors   *)
(* may share a key and differ in recipe: a source may leave part of its    *)
(* configuration out of its identity (ArrayDataSource.identity_fields).    *)
(* A live DataSource is [key, recipe, serial], serial its object identity. *)
(***************************************************************************)
EXTENDS Integers

CONSTANTS
  Manager,     \* SourceManager objects
  Key,         \* (source_type, source_id) pairs
  Type,        \* source types
  TypeOf,      \* TypeOf[k]: the source_type of key k
  Recipe,      \* open configurations
  NoHint,      \* an accessor without a manager_hint
  MaxSources,  \* bound: live DataSource objects made in one behaviour
  MaxCells     \* bound: accessor cells made in one behaviour

ASSUME TypeOfAssumption == TypeOf \in [Key -> Type]
ASSUME NoHintAssumption == NoHint \notin Manager
ASSUME BoundAssumption == MaxSources \in Nat /\ MaxCells \in Nat

VARIABLES
  next,     \* next[m]: _next_descriptor_id
  idOf,     \* idOf[m]: _id_by_key, a function on the keys registered
  descOf,   \* descOf[m]: _descriptor_by_id, a function on the ids given out
  live,     \* live[m]: _sources, a function on the keys with a live source
  types,    \* types[m]: the domain of _source_types
  default,  \* the process-wide default manager
  cells,    \* the accessors in table cells, with where they came from
  placed,   \* cells placed so far
  made,     \* DataSource objects made so far
  closed,   \* serials of the sources close() was called on
  held      \* held[m]: serials of every source m ever registered or opened

vars == <<next, idOf, descOf, live, types, default, cells, placed, made, closed, held>>

Descriptor == [key : Key, recipe : Recipe]
Source == [key : Key, recipe : Recipe, serial : Nat]

(* An accessor cell: the source_desc_id it carries, the key of the source  *)
(* it was made over, the manager that gave out the id, its manager_hint,   *)
(* and the source_manager of the dataset that holds it.                    *)
Cell == [id : Nat, key : Key, home : Manager, hint : Manager \cup {NoHint},
         owner : Manager]

Bind(f, x, v) == [y \in DOMAIN f \cup {x} |-> IF y = x THEN v ELSE f[y]]

Empty == [y \in {} |-> {}]

NewSource(d) == [key |-> d.key, recipe |-> d.recipe, serial |-> made + 1]

-----------------------------------------------------------------------------
Init ==
  /\ next = [m \in Manager |-> 1]
  /\ idOf = [m \in Manager |-> Empty]
  /\ descOf = [m \in Manager |-> Empty]
  /\ live = [m \in Manager |-> Empty]
  /\ types = [m \in Manager |-> {}]
  /\ default \in Manager
  /\ cells = {}
  /\ placed = 0
  /\ made = 0
  /\ closed = {}
  /\ held = [m \in Manager |-> {}]

-----------------------------------------------------------------------------
(* Steps of the manager, as conjuncts of the actions below *)

(* register_descriptor: the first descriptor of a key is kept.             *)
AddDescriptor_Overwrite(m, d) ==
  IF d.key \in DOMAIN idOf[m]
  THEN /\ descOf' = [descOf EXCEPT ![m] = Bind(@, idOf[m][d.key], d)]
       /\ UNCHANGED <<next, idOf>>
  ELSE /\ next' = [next EXCEPT ![m] = @ + 1]
       /\ idOf' = [idOf EXCEPT ![m] = Bind(@, d.key, next[m])]
       /\ descOf' = [descOf EXCEPT ![m] = Bind(@, next[m], d)]

AddDescriptor_NoReuse(m, d) ==
  /\ next' = [next EXCEPT ![m] = @ + 1]
  /\ idOf' = [idOf EXCEPT ![m] = Bind(@, d.key, next[m])]
  /\ descOf' = [descOf EXCEPT ![m] = Bind(@, next[m], d)]

AddDescriptor(m, d) ==
  IF d.key \in DOMAIN idOf[m]
  THEN UNCHANGED <<next, idOf, descOf>>
  ELSE /\ next' = [next EXCEPT ![m] = @ + 1]
       /\ idOf' = [idOf EXCEPT ![m] = Bind(@, d.key, next[m])]
       /\ descOf' = [descOf EXCEPT ![m] = Bind(@, next[m], d)]

(* register_source: the type, the descriptor, and (in the actions) the     *)
(* live source; idOf'[m][s.key] is the id it returns.                      *)
Register(m, s) ==
  /\ types' = [types EXCEPT ![m] = @ \cup {TypeOf[s.key]}]
  /\ AddDescriptor(m, [key |-> s.key, recipe |-> s.recipe])

Make == made < MaxSources /\ made' = made + 1

Hold(m, s) == held' = [held EXCEPT ![m] = @ \cup {s.serial}]

(* get_source: the live source of d's key, or one opened from d.           *)
Get_OpensLatest(m, d) ==
  IF d.key \in DOMAIN live[m]
  THEN UNCHANGED <<live, made, held>>
  ELSE LET latest == IF next[m] > 1 THEN descOf[m][next[m] - 1] ELSE d
       IN  /\ TypeOf[d.key] \in types[m]
           /\ Make
           /\ Hold(m, NewSource(latest))
           /\ live' = [live EXCEPT ![m] = Bind(@, d.key, NewSource(latest))]

Get(m, d) ==
  IF d.key \in DOMAIN live[m]
  THEN UNCHANGED <<live, made, held>>
  ELSE /\ TypeOf[d.key] \in types[m]
       /\ Make
       /\ Hold(m, NewSource(d))
       /\ live' = [live EXCEPT ![m] = Bind(@, d.key, NewSource(d))]

(* _resolve_manager without an explicit argument. *)
Effective(c) == IF c.hint = NoHint THEN default ELSE c.hint

Place(c) == placed < MaxCells /\ placed' = placed + 1 /\ cells' = cells \cup {c}

-----------------------------------------------------------------------------
(* Operations *)

RegisterSourceType(m, t) ==
  /\ types' = [types EXCEPT ![m] = @ \cup {t}]
  /\ UNCHANGED <<next, idOf, descOf, live, default, cells, placed, made, closed, held>>

RegisterDescriptor(m, d) ==
  /\ AddDescriptor(m, d)
  /\ UNCHANGED <<live, types, default, cells, placed, made, closed, held>>

(* get_source (acquire is the same call: leases are not counted). *)
GetSource(m, d) ==
  /\ Get(m, d)
  /\ UNCHANGED <<next, idOf, descOf, types, default, cells, placed, closed>>

CloseAll_KeepsLive(m) ==
  /\ closed' = closed \cup {live[m][k].serial : k \in DOMAIN live[m]}
  /\ UNCHANGED <<next, idOf, descOf, live, types, default, cells, placed, made, held>>

CloseAll_ForgetsIds(m) ==
  /\ closed' = closed \cup {live[m][k].serial : k \in DOMAIN live[m]}
  /\ live' = [live EXCEPT ![m] = Empty]
  /\ next' = [next EXCEPT ![m] = 1]
  /\ idOf' = [idOf EXCEPT ![m] = Empty]
  /\ descOf' = [descOf EXCEPT ![m] = Empty]
  /\ UNCHANGED <<types, default, cells, placed, made, held>>

CloseAll(m) ==
  /\ closed' = closed \cup {live[m][k].serial : k \in DOMAIN live[m]}
  /\ live' = [live EXCEPT ![m] = Empty]
  /\ UNCHANGED <<next, idOf, descOf, types, default, cells, placed, made, held>>

(* reset_default_manager: a manager nothing has used yet. *)
Unused(m) == next[m] = 1 /\ DOMAIN live[m] = {} /\ types[m] = {}

ResetDefault(m) ==
  /\ m # default /\ Unused(m)
  /\ default' = m
  /\ UNCHANGED <<next, idOf, descOf, live, types, cells, placed, made, closed, held>>

(* CreationOperator.run with manager m (the default one unless bound), or  *)
(* offload into a store over m, whose accessors carry m as their hint.     *)
Create(m, d, hint) ==
  LET s == NewSource(d)
  IN  /\ Make
      /\ Register(m, s)
      /\ live' = [live EXCEPT ![m] = Bind(@, s.key, s)]
      /\ Hold(m, s)
      /\ Place([id |-> idOf'[m][s.key], key |-> s.key, home |-> m, hint |-> hint,
                owner |-> m])
      /\ UNCHANGED <<default, closed>>

(* make_from_dataframe into manager m over a table that holds c: the       *)
(* source found under c.id is registered with m; the cell is not rewritten. *)
MakeFromDataframe_HintOwns(m, c) ==
  LET from == Effective(c)
      d    == descOf[from][c.id]
  IN  /\ c.id \in DOMAIN descOf[from]
      /\ d.key \in DOMAIN live[from]
      /\ Register(m, live[from][d.key])
      /\ live' = [live EXCEPT ![m] = Bind(@, d.key, live[from][d.key])]
      /\ held' = [held EXCEPT ![m] = @ \cup {live[from][d.key].serial}]
      /\ Place([c EXCEPT !.owner = c.hint])
      /\ UNCHANGED <<made, default, closed>>

MakeFromDataframe(m, c) ==
  LET from == Effective(c)
      d    == descOf[from][c.id]
      shut == d.key \notin DOMAIN live[from]
      s    == IF shut THEN NewSource(d) ELSE live[from][d.key]
  IN  /\ c.id \in DOMAIN descOf[from]
      /\ shut => TypeOf[d.key] \in types[from] /\ made < MaxSources
      /\ made' = IF shut THEN made + 1 ELSE made
      /\ Register(m, s)
      /\ live' = [n \in Manager |->
                   IF n \in {from, m} THEN Bind(live[n], s.key, s) ELSE live[n]]
      /\ held' = [n \in Manager |->
                   IF n \in {from, m} THEN held[n] \cup {s.serial} ELSE held[n]]
      /\ Place([c EXCEPT !.owner = m])
      /\ UNCHANGED <<default, closed>>

(* accessor.materialize(manager), through the manager resolved. *)
Materialize(c, m) ==
  /\ c.id \in DOMAIN descOf[m]
  /\ Get(m, descOf[m][c.id])
  /\ UNCHANGED <<next, idOf, descOf, types, default, cells, placed, closed>>

Next ==
  \/ \E m \in Manager, t \in Type : RegisterSourceType(m, t)
  \/ \E m \in Manager, d \in Descriptor : RegisterDescriptor(m, d)
  \/ \E m \in Manager, d \in Descriptor : GetSource(m, d)
  \/ \E m \in Manager : CloseAll(m)
  \/ \E m \in Manager : ResetDefault(m)
  \/ \E m \in Manager, d \in Descriptor : Create(m, d, NoHint)
  \/ \E m \in Manager, d \in Descriptor : Create(m, d, m)
  \/ \E m \in Manager, c \in cells : MakeFromDataframe(m, c)
  \/ \E c \in cells : Materialize(c, Effective(c))
  \/ \E c \in cells : Materialize(c, c.owner)

Spec == Init /\ [][Next]_vars

-----------------------------------------------------------------------------
(* Properties *)

(* The dictionaries of every manager are functions on keys and ids, and    *)
(* every accessor cell carries an id, a key and its managers.              *)
TypeOK ==
  /\ DOMAIN next = Manager /\ DOMAIN idOf = Manager /\ DOMAIN descOf = Manager
  /\ DOMAIN live = Manager /\ DOMAIN types = Manager /\ DOMAIN held = Manager
  /\ \A m \in Manager :
       /\ next[m] \in Nat \ {0}
       /\ DOMAIN idOf[m] \subseteq Key
       /\ \A k \in DOMAIN idOf[m] : idOf[m][k] \in Nat
       /\ DOMAIN descOf[m] \subseteq Nat
       /\ \A i \in DOMAIN descOf[m] : descOf[m][i] \in Descriptor
       /\ DOMAIN live[m] \subseteq Key
       /\ \A k \in DOMAIN live[m] : live[m][k] \in Source
       /\ types[m] \subseteq Type
       /\ held[m] \subseteq Nat
  /\ default \in Manager
  /\ cells \subseteq Cell
  /\ placed \in Nat /\ made \in Nat /\ closed \subseteq Nat

(* In every manager the two dictionaries are inverse to each other: ids    *)
(* are handed out densely from 1, each names one key, and a key never gets *)
(* a second id, however often it is registered.                            *)
IdsAndKeysAgree ==
  \A m \in Manager :
    /\ DOMAIN descOf[m] = 1 .. (next[m] - 1)
    /\ \A k \in DOMAIN idOf[m] :
         idOf[m][k] \in DOMAIN descOf[m] /\ descOf[m][idOf[m][k]].key = k
    /\ \A i \in DOMAIN descOf[m] :
         descOf[m][i].key \in DOMAIN idOf[m] /\ idOf[m][descOf[m][i].key] = i

(* _sources files every live source under its own key, so no id can reach  *)
(* the source of another one.                                              *)
LiveUnderOwnKey ==
  \A m \in Manager : \A k \in DOMAIN live[m] : live[m][k].key = k

(* An accessor is never orphaned: for ever after, through any registering, *)
(* closing and reopening, the manager that gave out its id knows the       *)
(* source it was made over under that id, and knows how to open it.        *)
AccessorsResolveAtHome ==
  \A c \in cells :
    /\ c.id \in DOMAIN descOf[c.home]
    /\ descOf[c.home][c.id].key = c.key
    /\ TypeOf[c.key] \in types[c.home]

(* What an id means to a manager never changes, and no id is withdrawn:    *)
(* accessors are persisted in table cells and outlive every source.        *)
IdsAreForever ==
  [][\A m \in Manager : \A i \in DOMAIN descOf[m] :
       i \in DOMAIN descOf'[m] /\ descOf'[m][i] = descOf[m][i]]_vars

(* A manager holds a closed source only if it shares the object with       *)
(* another manager (make_from_dataframe registers the same object twice).  *)
OnlySharedSourcesAreClosed ==
  \A m \in Manager : \A k \in DOMAIN live[m] :
    live[m][k].serial \in closed =>
      \E n \in Manager \ {m} : live[m][k].serial \in held[n]

(* "so the new dataset is self-contained": the dataset's own manager       *)
(* resolves each of its accessors to the source it was made over.          *)
SelfContained ==
  \A c \in cells :
    /\ c.id \in DOMAIN descOf[c.owner]
    /\ descOf[c.owner][c.id].key = c.key
=============================================================================
