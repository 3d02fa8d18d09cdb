------------------------- MODULE SourceManager_proofs -------------------------
(***************************************************************************)
(* Proofs about source managers, for any number of managers, keys, types,  *)
(* recipes, sources and cells.                                             *)
(***************************************************************************)
EXTENDS SourceManager, TLAPS

(* The inductive invariant.  That accessors resolve needs the inverse      *)
(* dictionaries (the id register_source returns must name the source just  *)
(* registered) and the types of what is read from them; that live sources  *)
(* are filed under their own keys is what lets make_from_dataframe         *)
(* register, under the right key, a source found through an id.            *)
IInv ==
  TypeOK /\ IdsAndKeysAgree /\ LiveUnderOwnKey /\ AccessorsResolveAtHome

(* One registration of a descriptor: the two dictionaries stay typed and   *)
(* inverse to each other, the key has an id afterwards, and every id given *)
(* out before keeps its descriptor.                                        *)
LEMMA AddDescriptorLemma ==
  ASSUME TypeOK, IdsAndKeysAgree,
         NEW m \in Manager, NEW d \in Descriptor, AddDescriptor(m, d)
  PROVE  /\ DOMAIN next' = Manager /\ DOMAIN idOf' = Manager /\ DOMAIN descOf' = Manager
         /\ \A n \in Manager :
              /\ next'[n] \in Nat \ {0}
              /\ DOMAIN idOf'[n] \subseteq Key
              /\ \A k \in DOMAIN idOf'[n] : idOf'[n][k] \in Nat
              /\ DOMAIN descOf'[n] \subseteq Nat
              /\ \A i \in DOMAIN descOf'[n] : descOf'[n][i] \in Descriptor
         /\ IdsAndKeysAgree'
         /\ d.key \in DOMAIN idOf'[m]
         /\ \A n \in Manager : \A i \in DOMAIN descOf[n] :
              i \in DOMAIN descOf'[n] /\ descOf'[n][i] = descOf[n][i]
<1>1. CASE d.key \in DOMAIN idOf[m]
  BY <1>1 DEF AddDescriptor, TypeOK, IdsAndKeysAgree
<1>2. CASE d.key \notin DOMAIN idOf[m]
  <2> DEFINE new == next[m]
  <2>1. /\ next' = [next EXCEPT ![m] = @ + 1]
        /\ idOf' = [idOf EXCEPT ![m] = Bind(@, d.key, new)]
        /\ descOf' = [descOf EXCEPT ![m] = Bind(@, new, d)]
    BY <1>2 DEF AddDescriptor
  <2>2. d.key \in Key /\ new \in Nat \ {0}
    BY DEF TypeOK, Descriptor
  <2>3. /\ DOMAIN next' = Manager /\ DOMAIN idOf' = Manager /\ DOMAIN descOf' = Manager
    BY <2>1 DEF TypeOK
  <2>4. /\ next'[m] = new + 1
        /\ idOf'[m] = Bind(idOf[m], d.key, new)
        /\ descOf'[m] = Bind(descOf[m], new, d)
    BY <2>1 DEF TypeOK
  <2>5. \A n \in Manager : n # m =>
          next'[n] = next[n] /\ idOf'[n] = idOf[n] /\ descOf'[n] = descOf[n]
    BY <2>1 DEF TypeOK
  <2>6. /\ DOMAIN idOf'[m] = DOMAIN idOf[m] \cup {d.key}
        /\ idOf'[m][d.key] = new
        /\ \A k \in DOMAIN idOf[m] : idOf'[m][k] = idOf[m][k]
    BY <1>2, <2>4 DEF Bind
  <2>7. DOMAIN descOf[m] = 1 .. (new - 1) /\ new \notin DOMAIN descOf[m]
    BY <2>2 DEF IdsAndKeysAgree
  <2>8. /\ DOMAIN descOf'[m] = DOMAIN descOf[m] \cup {new}
        /\ descOf'[m][new] = d
        /\ \A i \in DOMAIN descOf[m] : descOf'[m][i] = descOf[m][i]
    BY <2>4, <2>7 DEF Bind
  <2>9. DOMAIN descOf'[m] = 1 .. (next'[m] - 1)
    BY <2>2, <2>4, <2>7, <2>8
  <2>10. /\ next'[m] \in Nat \ {0}
         /\ DOMAIN idOf'[m] \subseteq Key
         /\ \A k \in DOMAIN idOf'[m] : idOf'[m][k] \in Nat
         /\ DOMAIN descOf'[m] \subseteq Nat
         /\ \A i \in DOMAIN descOf'[m] : descOf'[m][i] \in Descriptor
    BY <2>2, <2>4, <2>6, <2>8 DEF TypeOK
  <2>11. /\ \A k \in DOMAIN idOf'[m] :
              idOf'[m][k] \in DOMAIN descOf'[m] /\ descOf'[m][idOf'[m][k]].key = k
         /\ \A i \in DOMAIN descOf'[m] :
              descOf'[m][i].key \in DOMAIN idOf'[m] /\ idOf'[m][descOf'[m][i].key] = i
    BY <2>6, <2>8 DEF IdsAndKeysAgree
  <2>12. IdsAndKeysAgree'
    <3> SUFFICES ASSUME NEW n \in Manager
                 PROVE  /\ DOMAIN descOf'[n] = 1 .. (next'[n] - 1)
                        /\ \A k \in DOMAIN idOf'[n] :
                             /\ idOf'[n][k] \in DOMAIN descOf'[n]
                             /\ descOf'[n][idOf'[n][k]].key = k
                        /\ \A i \in DOMAIN descOf'[n] :
                             /\ descOf'[n][i].key \in DOMAIN idOf'[n]
                             /\ idOf'[n][descOf'[n][i].key] = i
      BY DEF IdsAndKeysAgree
    <3>1. CASE n = m
      BY <3>1, <2>9, <2>11
    <3>2. CASE n # m
      BY <3>2, <2>5 DEF IdsAndKeysAgree
    <3> QED
      BY <3>1, <3>2
  <2>13. \A n \in Manager :
              /\ next'[n] \in Nat \ {0}
              /\ DOMAIN idOf'[n] \subseteq Key
              /\ \A k \in DOMAIN idOf'[n] : idOf'[n][k] \in Nat
              /\ DOMAIN descOf'[n] \subseteq Nat
              /\ \A i \in DOMAIN descOf'[n] : descOf'[n][i] \in Descriptor
    BY <2>5, <2>10 DEF TypeOK
  <2>14. \A n \in Manager : \A i \in DOMAIN descOf[n] :
              i \in DOMAIN descOf'[n] /\ descOf'[n][i] = descOf[n][i]
    BY <2>5, <2>8
  <2> QED
    BY <2>3, <2>6, <2>12, <2>13, <2>14
<1> QED
  BY <1>1, <1>2

(* The source make_from_dataframe registers is typed and filed under the   *)
(* key of the descriptor it was found by.                                  *)
LEMMA FoundSourceLemma ==
  ASSUME TypeOK, LiveUnderOwnKey, NEW n \in Manager, NEW i \in DOMAIN descOf[n]
  PROVE  LET d    == descOf[n][i]
             s    == IF d.key \notin DOMAIN live[n] THEN NewSource(d) ELSE live[n][d.key]
         IN  s \in Source /\ s.key = d.key /\ d.key \in Key
<1> DEFINE d == descOf[n][i]
<1>1. d \in Descriptor /\ made \in Nat
  BY DEF TypeOK
<1>2. NewSource(d) \in Source /\ NewSource(d).key = d.key
  BY <1>1 DEF NewSource, Source, Descriptor
<1>3. d.key \in DOMAIN live[n] => live[n][d.key] \in Source /\ live[n][d.key].key = d.key
  BY DEF TypeOK, LiveUnderOwnKey
<1> QED
  BY <1>1, <1>2, <1>3 DEF Descriptor

(* A source, registered, is registered by its descriptor. *)
LEMMA RegisterLemma ==
  ASSUME TypeOK, NEW m \in Manager, NEW s \in Source, Register(m, s)
  PROVE  /\ AddDescriptor(m, [key |-> s.key, recipe |-> s.recipe])
         /\ [key |-> s.key, recipe |-> s.recipe] \in Descriptor
         /\ DOMAIN types' = Manager
         /\ \A n \in Manager : types[n] \subseteq types'[n] /\ types'[n] \subseteq Type
         /\ TypeOf[s.key] \in types'[m]
  BY TypeOfAssumption DEF Register, TypeOK, Source, Descriptor

(* What every step does to the registries: they stay typed and inverse,    *)
(* and ids and types are only ever added.                                  *)
LEMMA RegistryStep ==
  ASSUME IInv, [Next]_vars
  PROVE  /\ DOMAIN next' = Manager /\ DOMAIN idOf' = Manager /\ DOMAIN descOf' = Manager
         /\ \A n \in Manager :
              /\ next'[n] \in Nat \ {0}
              /\ DOMAIN idOf'[n] \subseteq Key
              /\ \A k \in DOMAIN idOf'[n] : idOf'[n][k] \in Nat
              /\ DOMAIN descOf'[n] \subseteq Nat
              /\ \A i \in DOMAIN descOf'[n] : descOf'[n][i] \in Descriptor
         /\ IdsAndKeysAgree'
         /\ \A n \in Manager : \A i \in DOMAIN descOf[n] :
              i \in DOMAIN descOf'[n] /\ descOf'[n][i] = descOf[n][i]
         /\ DOMAIN types' = Manager
         /\ \A n \in Manager : types[n] \subseteq types'[n] /\ types'[n] \subseteq Type
<1> USE DEF IInv
<1>1. CASE UNCHANGED <<next, idOf, descOf, types>>
  BY <1>1 DEF TypeOK, IdsAndKeysAgree
<1>2. ASSUME NEW m \in Manager, NEW t \in Type, RegisterSourceType(m, t)
      PROVE  /\ UNCHANGED <<next, idOf, descOf>>
             /\ DOMAIN types' = Manager
             /\ \A n \in Manager : types[n] \subseteq types'[n] /\ types'[n] \subseteq Type
  BY <1>2 DEF RegisterSourceType, TypeOK
<1>3. CASE \E m \in Manager, t \in Type : RegisterSourceType(m, t)
  BY <1>2, <1>3 DEF TypeOK, IdsAndKeysAgree
<1>4. CASE \E m \in Manager, d \in Descriptor : RegisterDescriptor(m, d)
  <2> PICK m \in Manager, d \in Descriptor : RegisterDescriptor(m, d)
    BY <1>4
  <2>1. AddDescriptor(m, d) /\ UNCHANGED types
    BY DEF RegisterDescriptor
  <2> QED
    BY <2>1, AddDescriptorLemma DEF TypeOK
<1>5. CASE \E m \in Manager, s \in Source : Register(m, s)
  <2> PICK m \in Manager, s \in Source : Register(m, s)
    BY <1>5
  <2> QED
    BY RegisterLemma, AddDescriptorLemma
<1>6. ASSUME NEW m \in Manager, NEW d \in Descriptor, NEW h, Create(m, d, h)
      PROVE  \E s \in Source : Register(m, s)
  BY <1>6 DEF Create, NewSource, Source, Descriptor, TypeOK
<1>7. ASSUME NEW m \in Manager, NEW c \in cells, MakeFromDataframe(m, c)
      PROVE  \E s \in Source : Register(m, s)
  <2>1. Effective(c) \in Manager /\ c.id \in DOMAIN descOf[Effective(c)]
    BY <1>7 DEF MakeFromDataframe, Effective, TypeOK, Cell
  <2> QED
    BY <1>7, <2>1, FoundSourceLemma DEF MakeFromDataframe
<1>8. CASE \E m \in Manager, d \in Descriptor : GetSource(m, d)
  BY <1>8, <1>1 DEF GetSource
<1>9. CASE \E m \in Manager : CloseAll(m) \/ ResetDefault(m)
  BY <1>9, <1>1 DEF CloseAll, ResetDefault
<1>10. CASE \E c \in cells : Materialize(c, Effective(c)) \/ Materialize(c, c.owner)
  BY <1>10, <1>1 DEF Materialize
<1>11. CASE UNCHANGED vars
  BY <1>11, <1>1 DEF vars
<1> QED
  BY <1>3, <1>4, <1>5, <1>6, <1>7, <1>8, <1>9, <1>10, <1>11 DEF Next

-----------------------------------------------------------------------------
(* A manager that has tracked nothing satisfies the inductive invariant. *)
LEMMA InitInv == Init => IInv
  BY DEF Init, IInv, TypeOK, IdsAndKeysAgree, LiveUnderOwnKey,
         AccessorsResolveAtHome, Empty

(* What LiveStep maintains. *)
LiveOK ==
  /\ DOMAIN live = Manager /\ DOMAIN held = Manager
  /\ \A n \in Manager :
       /\ DOMAIN live[n] \subseteq Key
       /\ \A k \in DOMAIN live[n] : live[n][k] \in Source /\ live[n][k].key = k
       /\ held[n] \subseteq Nat
  /\ made \in Nat /\ closed \subseteq Nat

(* Filing a source under its key. *)
LEMMA FileLemma ==
  ASSUME LiveOK, NEW m \in Manager, NEW s \in Source, closed' = closed,
         live' = [live EXCEPT ![m] = Bind(@, s.key, s)],
         held' = [held EXCEPT ![m] = @ \cup {s.serial}],
         made' \in Nat
  PROVE  LiveOK'
<1>1. s.key \in Key /\ s.serial \in Nat
  BY DEF Source
<1>2. /\ live'[m] = Bind(live[m], s.key, s)
      /\ held'[m] = held[m] \cup {s.serial}
      /\ \A n \in Manager : n # m => live'[n] = live[n] /\ held'[n] = held[n]
      /\ DOMAIN live' = Manager /\ DOMAIN held' = Manager
  BY DEF LiveOK
<1>3. /\ DOMAIN live'[m] = DOMAIN live[m] \cup {s.key}
      /\ \A k \in DOMAIN live'[m] :
           live'[m][k] = IF k = s.key THEN s ELSE live[m][k]
  BY <1>2 DEF Bind
<1>4. /\ DOMAIN live'[m] \subseteq Key
      /\ \A k \in DOMAIN live'[m] : live'[m][k] \in Source /\ live'[m][k].key = k
      /\ held'[m] \subseteq Nat
  BY <1>1, <1>2, <1>3 DEF LiveOK
<1> QED
  BY <1>2, <1>4 DEF LiveOK

(* get_source files the source it opens. *)
LEMMA GetLemma ==
  ASSUME TypeOK, LiveOK, NEW m \in Manager, NEW d \in Descriptor, Get(m, d),
         closed' = closed
  PROVE  LiveOK'
<1>1. CASE d.key \in DOMAIN live[m]
  BY <1>1 DEF Get, LiveOK
<1>2. CASE d.key \notin DOMAIN live[m]
  <2>1. NewSource(d) \in Source /\ NewSource(d).key = d.key
    BY DEF LiveOK, NewSource, Source, Descriptor
  <2>2. /\ live' = [live EXCEPT ![m] = Bind(@, NewSource(d).key, NewSource(d))]
        /\ held' = [held EXCEPT ![m] = @ \cup {NewSource(d).serial}]
        /\ made' \in Nat
    BY <1>2, <2>1 DEF Get, Hold, Make, LiveOK
  <2> QED
    BY <2>1, <2>2, FileLemma
<1> QED
  BY <1>1, <1>2

(* Every step keeps the live sources typed and filed under their own keys. *)
LEMMA LiveStep ==
  ASSUME TypeOK, LiveOK, [Next]_vars
  PROVE  LiveOK'
<1>1. CASE UNCHANGED <<live, held, made, closed>>
  BY <1>1 DEF LiveOK
<1>2. CASE \/ \E m \in Manager, t \in Type : RegisterSourceType(m, t)
           \/ \E m \in Manager, d \in Descriptor : RegisterDescriptor(m, d)
           \/ \E m \in Manager : ResetDefault(m)
           \/ UNCHANGED vars
  BY <1>1, <1>2 DEF RegisterSourceType, RegisterDescriptor, ResetDefault, vars
<1>3. CASE \E m \in Manager, d \in Descriptor : GetSource(m, d)
  BY <1>3, GetLemma DEF GetSource
<1>4. ASSUME NEW m \in Manager, NEW c \in cells, Materialize(c, m)
      PROVE  LiveOK'
  BY <1>4, GetLemma DEF Materialize, TypeOK
<1>5. CASE \E c \in cells : Materialize(c, Effective(c)) \/ Materialize(c, c.owner)
  BY <1>4, <1>5 DEF TypeOK, Effective, Cell
<1>6. CASE \E m \in Manager : CloseAll(m)
  <2> PICK m \in Manager : CloseAll(m)
    BY <1>6
  <2>1. /\ live' = [live EXCEPT ![m] = Empty] /\ held' = held /\ made' = made
        /\ closed' = closed \cup {live[m][k].serial : k \in DOMAIN live[m]}
    BY DEF CloseAll
  <2>2. {live[m][k].serial : k \in DOMAIN live[m]} \subseteq Nat
    BY DEF LiveOK, Source
  <2> QED
    BY <2>1, <2>2 DEF LiveOK, Empty
<1>7. ASSUME NEW m \in Manager, NEW d \in Descriptor, NEW h, Create(m, d, h)
      PROVE  LiveOK'
  <2>1. NewSource(d) \in Source
    BY DEF LiveOK, NewSource, Source, Descriptor
  <2>2. /\ live' = [live EXCEPT ![m] = Bind(@, NewSource(d).key, NewSource(d))]
        /\ held' = [held EXCEPT ![m] = @ \cup {NewSource(d).serial}]
        /\ made' \in Nat /\ closed' = closed
    BY <1>7 DEF Create, Hold, Make, LiveOK
  <2> QED
    BY <2>1, <2>2, FileLemma
<1>8. ASSUME NEW m \in Manager, NEW c \in cells, MakeFromDataframe(m, c)
      PROVE  LiveOK'
  <2> DEFINE from == Effective(c)
             d    == descOf[from][c.id]
             s    == IF d.key \notin DOMAIN live[from] THEN NewSource(d)
                     ELSE live[from][d.key]
  <2>1. from \in Manager /\ c.id \in DOMAIN descOf[from]
    BY <1>8 DEF MakeFromDataframe, Effective, TypeOK, Cell
  <2>2. s \in Source /\ s.key = d.key
    BY <2>1, FoundSourceLemma DEF LiveOK, LiveUnderOwnKey
  <2>3. /\ live' = [n \in Manager |->
                      IF n \in {from, m} THEN Bind(live[n], s.key, s) ELSE live[n]]
        /\ held' = [n \in Manager |->
                      IF n \in {from, m} THEN held[n] \cup {s.serial} ELSE held[n]]
        /\ closed' = closed /\ (made' = made + 1 \/ made' = made)
    BY <1>8, Zenon DEF MakeFromDataframe
  <2>4. /\ DOMAIN live' = Manager /\ DOMAIN held' = Manager
        /\ \A n \in Manager :
             /\ held'[n] \subseteq held[n] \cup {s.serial}
             /\ DOMAIN live'[n] \subseteq DOMAIN live[n] \cup {s.key}
             /\ \A k \in DOMAIN live'[n] :
                  \/ live'[n][k] = s /\ k = s.key
                  \/ k \in DOMAIN live[n] /\ live'[n][k] = live[n][k]
    <3> HIDE DEF s, from
    <3>1. ASSUME NEW n \in Manager, n \notin {from, m}
          PROVE  live'[n] = live[n] /\ held'[n] = held[n]
      BY <2>3, <3>1
    <3>2. ASSUME NEW n \in Manager, n \in {from, m}
          PROVE  live'[n] = Bind(live[n], s.key, s) /\ held'[n] = held[n] \cup {s.serial}
      BY <2>3, <3>2
    <3> QED
      BY <2>3, <3>1, <3>2 DEF Bind
  <2>5. s.key \in Key /\ s.serial \in Nat
    BY <2>2 DEF Source
  <2> HIDE DEF s
  <2> QED
    BY <2>2, <2>3, <2>4, <2>5 DEF LiveOK
<1> QED
  BY <1>2, <1>3, <1>5, <1>6, <1>7, <1>8 DEF Next

(* A new cell of a step is the one a creation made, over a source          *)
(* registered in that step, or an old cell in a new dataset.               *)
LEMMA CellStep ==
  ASSUME IInv, [Next]_vars
  PROVE  /\ default' \in Manager /\ placed' \in Nat
         /\ \A c \in cells' :
              \/ c \in cells
              \/ \E b \in cells, m \in Manager : c = [b EXCEPT !.owner = m]
              \/ \E m \in Manager, s \in Source :
                   /\ Register(m, s)
                   /\ c.id = idOf'[m][s.key] /\ c.key = s.key /\ c.home = m
                   /\ c = [id |-> c.id, key |-> c.key, home |-> m, hint |-> c.hint,
                           owner |-> m]
                   /\ c.hint \in Manager \cup {NoHint}
<1> USE DEF IInv
<1>1. CASE UNCHANGED <<default, cells, placed>>
  BY <1>1 DEF TypeOK
<1>2. CASE \/ \E m \in Manager, t \in Type : RegisterSourceType(m, t)
           \/ \E m \in Manager, d \in Descriptor : RegisterDescriptor(m, d)
           \/ \E m \in Manager, d \in Descriptor : GetSource(m, d)
           \/ \E m \in Manager : CloseAll(m)
           \/ \E c \in cells : Materialize(c, Effective(c))
           \/ \E c \in cells : Materialize(c, c.owner)
           \/ UNCHANGED vars
  BY <1>1, <1>2 DEF RegisterSourceType, RegisterDescriptor, GetSource, CloseAll,
                    Materialize, vars
<1>3. CASE \E m \in Manager : ResetDefault(m)
  BY <1>3 DEF ResetDefault, TypeOK
<1>4. ASSUME NEW m \in Manager, NEW d \in Descriptor,
             NEW h \in Manager \cup {NoHint}, Create(m, d, h)
      PROVE  /\ default' = default /\ placed' \in Nat
             /\ \A c \in cells' : c \notin cells =>
                  \E s \in Source :
                    /\ Register(m, s)
                    /\ c.id = idOf'[m][s.key] /\ c.key = s.key /\ c.home = m
                    /\ c = [id |-> c.id, key |-> c.key, home |-> m, hint |-> c.hint,
                            owner |-> m]
                    /\ c.hint \in Manager \cup {NoHint}
  <2> DEFINE s == NewSource(d)
  <2>1. s \in Source
    BY DEF TypeOK, NewSource, Source, Descriptor
  <2>2. /\ Register(m, s) /\ default' = default /\ placed' = placed + 1
        /\ cells' = cells \cup {[id |-> idOf'[m][s.key], key |-> s.key, home |-> m,
                                hint |-> h, owner |-> m]}
    BY <1>4 DEF Create, Place
  <2> HIDE DEF s
  <2> QED
    BY <2>1, <2>2 DEF TypeOK
<1>5. ASSUME NEW m \in Manager, NEW b \in cells, MakeFromDataframe(m, b)
      PROVE  /\ default' = default /\ placed' \in Nat
             /\ \A c \in cells' : c \in cells \/ c = [b EXCEPT !.owner = m]
  <2>1. /\ default' = default /\ placed' = placed + 1
        /\ cells' = cells \cup {[b EXCEPT !.owner = m]}
    BY <1>5, Zenon DEF MakeFromDataframe, Place
  <2>2. placed \in Nat
    BY DEF TypeOK
  <2> QED BY <2>1, <2>2
<1>6. CASE \E m \in Manager, d \in Descriptor : Create(m, d, NoHint) \/ Create(m, d, m)
  <2> PICK m \in Manager, d \in Descriptor, h \in Manager \cup {NoHint} : Create(m, d, h)
    BY <1>6
  <2>1. default' \in Manager /\ placed' \in Nat
    BY <1>4 DEF TypeOK
  <2> QED
    BY <1>4, <2>1
<1>7. CASE \E m \in Manager, b \in cells : MakeFromDataframe(m, b)
  <2> PICK m \in Manager, b \in cells : MakeFromDataframe(m, b)
    BY <1>7
  <2>1. default' \in Manager /\ placed' \in Nat
    BY <1>5 DEF TypeOK
  <2>2. \A c \in cells' : c \in cells \/ c = [b EXCEPT !.owner = m]
    BY <1>5
  <2> QED
    BY <2>1, <2>2
<1> QED
  BY <1>2, <1>3, <1>6, <1>7 DEF Next

(* The cells stay typed, and resolve at home. *)
LEMMA ResolveStep ==
  ASSUME IInv, [Next]_vars
  PROVE  cells' \subseteq Cell /\ AccessorsResolveAtHome'
<1> USE DEF IInv
<1>1. ASSUME NEW c \in cells
      PROVE  /\ c \in Cell
             /\ c.id \in DOMAIN descOf'[c.home] /\ descOf'[c.home][c.id].key = c.key
             /\ TypeOf[c.key] \in types'[c.home]
  <2>1. c \in Cell /\ c.home \in Manager
    BY DEF TypeOK, Cell
  <2> QED
    BY <2>1, RegistryStep DEF AccessorsResolveAtHome
<1>2. ASSUME NEW b \in cells, NEW m \in Manager, NEW c, c = [b EXCEPT !.owner = m]
      PROVE  c \in Cell /\ c.id = b.id /\ c.key = b.key /\ c.home = b.home
  BY <1>2 DEF TypeOK, Cell
<1>3. ASSUME NEW m \in Manager, NEW s \in Source, Register(m, s), NEW c,
             c = [id |-> c.id, key |-> c.key, home |-> m, hint |-> c.hint, owner |-> m],
             c.id = idOf'[m][s.key], c.key = s.key, c.home = m,
             c.hint \in Manager \cup {NoHint}
      PROVE  /\ c \in Cell
             /\ c.id \in DOMAIN descOf'[c.home] /\ descOf'[c.home][c.id].key = c.key
             /\ TypeOf[c.key] \in types'[c.home]
  <2>1. s.key \in DOMAIN idOf'[m] /\ IdsAndKeysAgree' /\ TypeOf[s.key] \in types'[m]
    BY <1>3, RegisterLemma, AddDescriptorLemma, ZenonT(40)
  <2>2. /\ idOf'[m][s.key] \in DOMAIN descOf'[m]
        /\ descOf'[m][idOf'[m][s.key]].key = s.key
    BY <2>1 DEF IdsAndKeysAgree
  <2>3. idOf'[m][s.key] \in Nat /\ s.key \in Key
    BY <2>1, RegistryStep DEF Source
  <2>4. c \in Cell
    BY <1>3, <2>3 DEF Cell
  <2> QED
    BY <1>3, <2>1, <2>2, <2>4
<1>4. ASSUME NEW c \in cells'
      PROVE  /\ c \in Cell
             /\ c.id \in DOMAIN descOf'[c.home] /\ descOf'[c.home][c.id].key = c.key
             /\ TypeOf[c.key] \in types'[c.home]
  BY <1>1, <1>2, <1>3, CellStep
<1> QED
  BY <1>4 DEF AccessorsResolveAtHome

(* Every operation of the manager keeps the inductive invariant. *)
LEMMA StepInv == IInv /\ [Next]_vars => IInv'
<1> SUFFICES ASSUME IInv, [Next]_vars
             PROVE  IInv'
  OBVIOUS
<1>1. LiveOK
  BY DEF IInv, LiveOK, TypeOK, LiveUnderOwnKey
<1>2. LiveOK'
  BY <1>1, LiveStep DEF IInv
<1>3. LiveUnderOwnKey'
  BY <1>2 DEF LiveOK, LiveUnderOwnKey
<1>4. TypeOK'
  BY <1>2, RegistryStep, CellStep, ResolveStep DEF TypeOK, LiveOK
<1> QED
  BY <1>3, <1>4, RegistryStep, ResolveStep DEF IInv

(* Every reachable manager state satisfies the inductive invariant. *)
LEMMA Invariance == Spec => []IInv
  BY InitInv, StepInv, PTL DEF Spec

-----------------------------------------------------------------------------
(* Type correctness. *)
THEOREM TypeCorrect == Spec => []TypeOK
<1>1. IInv => TypeOK
  BY DEF IInv
<1> QED
  BY <1>1, Invariance, PTL

(* Ids and keys of every manager are in one-to-one correspondence.  This   *)
(* is what makes register_descriptor idempotent and an integer in a table  *)
(* cell a reference to a source.                                           *)
THEOREM IdsAgree == Spec => []IdsAndKeysAgree
<1>1. IInv => IdsAndKeysAgree
  BY DEF IInv
<1> QED
  BY <1>1, Invariance, PTL

(* Every accessor ever made resolves, in the manager that gave out its id, *)
(* to the source it was made over, whatever was closed or registered since. *)
THEOREM AccessorsResolve == Spec => []AccessorsResolveAtHome
<1>1. IInv => AccessorsResolveAtHome
  BY DEF IInv
<1> QED
  BY <1>1, Invariance, PTL

(* No step of the session withdraws an id or changes what it means. *)
THEOREM IdsPersist == Spec => IdsAreForever
<1>1. IInv /\ [Next]_vars =>
        [\A m \in Manager : \A i \in DOMAIN descOf[m] :
           i \in DOMAIN descOf'[m] /\ descOf'[m][i] = descOf[m][i]]_vars
  BY RegistryStep
<1> QED
  BY <1>1, Invariance, PTL DEF Spec, IdsAreForever

(* _sources files every live source under its own key, in every manager.   *)
THEOREM OwnKeys == Spec => []LiveUnderOwnKey
<1>1. IInv => LiveUnderOwnKey
  BY DEF IInv
<1> QED
  BY <1>1, Invariance, PTL

-----------------------------------------------------------------------------
(* Closed sources.  A manager remembers every source it was given, and no  *)
(* serial is closed before the source is made: so a source just opened is  *)
(* open, and one that some close_all closes is remembered by that manager. *)
SerialsOK ==
  /\ \A n \in Manager : \A k \in DOMAIN live[n] : live[n][k].serial \in held[n]
  /\ \A n \in Manager : \A x \in held[n] : x <= made
  /\ \A x \in closed : x <= made

SInv == SerialsOK /\ OnlySharedSourcesAreClosed

(* Filing the source s in the managers `at`, when a closed s is remembered *)
(* by a manager other than the one that files it.                          *)
LEMMA ShareLemma ==
  ASSUME TypeOK, SInv, NEW at \in SUBSET Manager, NEW s \in Source,
         made' \in Nat, made <= made', s.serial <= made', closed' = closed,
         \A n \in Manager \ at : live'[n] = live[n] /\ held'[n] = held[n],
         \A n \in at : /\ live'[n] = Bind(live[n], s.key, s)
                       /\ held'[n] = held[n] \cup {s.serial},
         s.serial \in closed =>
           \A n \in at : \E o \in Manager \ {n} : s.serial \in held'[o]
  PROVE  SInv'
<1>1. \A n \in Manager :
        /\ held[n] \subseteq held'[n]
        /\ held'[n] \subseteq held[n] \cup {s.serial}
  OBVIOUS
<1>2. \A n \in Manager : \A k \in DOMAIN live'[n] :
        \/ k \in DOMAIN live[n] /\ live'[n][k] = live[n][k]
        \/ n \in at /\ live'[n][k] = s
  <2> SUFFICES ASSUME NEW n \in Manager, NEW k \in DOMAIN live'[n]
               PROVE  \/ k \in DOMAIN live[n] /\ live'[n][k] = live[n][k]
                      \/ n \in at /\ live'[n][k] = s
    OBVIOUS
  <2>1. CASE n \in at
    <3>1. live'[n] = [y \in DOMAIN live[n] \cup {s.key} |->
                        IF y = s.key THEN s ELSE live[n][y]]
      BY <2>1 DEF Bind
    <3>2. k \in DOMAIN live[n] \cup {s.key}
      BY <3>1
    <3>3. live'[n][k] = IF k = s.key THEN s ELSE live[n][k]
      BY <3>1, <3>2
    <3> QED
      BY <2>1, <3>2, <3>3
  <2>2. CASE n \notin at
    BY <2>2
  <2> QED
    BY <2>1, <2>2
<1>3. \A n \in Manager : \A k \in DOMAIN live'[n] : live'[n][k].serial \in held'[n]
  BY <1>1, <1>2 DEF SInv, SerialsOK
<1>4. \A n \in Manager : \A x \in held'[n] : x <= made'
  <2> SUFFICES ASSUME NEW n \in Manager, NEW x \in held'[n]
               PROVE  x <= made'
    OBVIOUS
  <2>1. CASE x \in held[n]
    <3>1. x \in Nat /\ made \in Nat /\ x <= made
      BY <2>1 DEF TypeOK, SInv, SerialsOK
    <3> QED
      BY <3>1
  <2> QED
    BY <1>1, <2>1
<1>5. \A x \in closed' : x <= made'
  <2> SUFFICES ASSUME NEW x \in closed
               PROVE  x <= made'
    OBVIOUS
  <2>1. x \in Nat /\ made \in Nat /\ x <= made
    BY DEF TypeOK, SInv, SerialsOK
  <2> QED
    BY <2>1
<1>6. ASSUME NEW n \in Manager, NEW k \in DOMAIN live'[n], live'[n][k].serial \in closed
      PROVE  \E o \in Manager \ {n} : live'[n][k].serial \in held'[o]
  <2>1. CASE k \in DOMAIN live[n] /\ live'[n][k] = live[n][k]
    <3>1. \E o \in Manager \ {n} : live[n][k].serial \in held[o]
      BY <1>6, <2>1 DEF SInv, OnlySharedSourcesAreClosed
    <3> QED
      BY <2>1, <3>1, <1>1
  <2>2. CASE n \in at /\ live'[n][k] = s
    BY <1>6, <2>2
  <2> QED
    BY <1>2, <2>1, <2>2
<1> QED
  BY <1>3, <1>4, <1>5, <1>6 DEF SInv, SerialsOK, OnlySharedSourcesAreClosed

(* A source just made is open. *)
LEMMA NewIsOpen ==
  ASSUME TypeOK, SerialsOK, NEW d \in Descriptor
  PROVE  /\ NewSource(d) \in Source /\ NewSource(d).key = d.key
         /\ NewSource(d).serial = made + 1 /\ made + 1 \notin closed
<1>1. made \in Nat /\ made + 1 \in Nat /\ ~(made + 1 <= made)
  BY DEF TypeOK
<1>2. made + 1 \notin closed
  BY <1>1 DEF SerialsOK
<1> QED
  BY <1>1, <1>2 DEF NewSource, Source, Descriptor

(* Every step preserves SInv. *)
LEMMA SharedStep ==
  ASSUME IInv, SInv, [Next]_vars
  PROVE  SInv'
<1> USE DEF IInv
<1>0. SerialsOK /\ made \in Nat
  BY DEF SInv, TypeOK
<1>1. CASE UNCHANGED <<live, held, made, closed>>
  BY <1>1 DEF SInv, SerialsOK, OnlySharedSourcesAreClosed
<1>2. CASE \/ \E m \in Manager, t \in Type : RegisterSourceType(m, t)
           \/ \E m \in Manager, d \in Descriptor : RegisterDescriptor(m, d)
           \/ \E m \in Manager : ResetDefault(m)
           \/ UNCHANGED vars
  BY <1>1, <1>2 DEF RegisterSourceType, RegisterDescriptor, ResetDefault, vars
<1>3. ASSUME NEW m \in Manager, NEW d \in Descriptor, made' = made + 1, closed' = closed,
             live' = [live EXCEPT ![m] = Bind(@, d.key, NewSource(d))],
             Hold(m, NewSource(d))
      PROVE  SInv'
  <2> DEFINE s  == NewSource(d)
             at == {m}
  <2>1. s \in Source /\ s.key = d.key /\ s.serial = made + 1 /\ s.serial \notin closed
    BY <1>0, NewIsOpen
  <2> HIDE DEF s
  <2>2. /\ at \in SUBSET Manager
        /\ \A n \in at : /\ live'[n] = Bind(live[n], s.key, s)
                         /\ held'[n] = held[n] \cup {s.serial}
        /\ \A n \in Manager \ at : live'[n] = live[n] /\ held'[n] = held[n]
    BY <1>3, <2>1 DEF Hold, TypeOK, s
  <2> HIDE DEF at
  <2>3. made' \in Nat /\ made <= made' /\ s.serial <= made'
    BY <1>0, <1>3, <2>1
  <2> QED
    BY <1>3, <2>1, <2>2, <2>3, ShareLemma
<1>4. ASSUME NEW m \in Manager, NEW d \in Descriptor, Get(m, d), closed' = closed
      PROVE  SInv'
  <2>1. CASE d.key \in DOMAIN live[m]
    BY <1>1, <1>4, <2>1 DEF Get
  <2>2. CASE d.key \notin DOMAIN live[m]
    BY <1>3, <1>4, <2>2 DEF Get, Make
  <2> QED
    BY <2>1, <2>2
<1>5. CASE \E m \in Manager, d \in Descriptor : GetSource(m, d)
  BY <1>4, <1>5 DEF GetSource
<1>6. CASE \E c \in cells : Materialize(c, Effective(c)) \/ Materialize(c, c.owner)
  BY <1>4, <1>6 DEF Materialize, TypeOK, Effective, Cell
<1>7. CASE \E m \in Manager, d \in Descriptor : Create(m, d, NoHint) \/ Create(m, d, m)
  <2> PICK m \in Manager, d \in Descriptor, h \in Manager \cup {NoHint} : Create(m, d, h)
    BY <1>7
  <2>1. /\ live' = [live EXCEPT ![m] = Bind(@, d.key, NewSource(d))]
        /\ Hold(m, NewSource(d)) /\ made' = made + 1 /\ closed' = closed
    BY DEF Create, Make, NewSource
  <2> QED
    BY <1>3, <2>1
<1>8. CASE \E m \in Manager : CloseAll(m)
  <2> PICK m \in Manager : CloseAll(m)
    BY <1>8
  <2>1. /\ live' = [live EXCEPT ![m] = Empty] /\ held' = held /\ made' = made
        /\ closed' = closed \cup {live[m][k].serial : k \in DOMAIN live[m]}
    BY DEF CloseAll
  <2>2. /\ DOMAIN live'[m] = {}
        /\ \A n \in Manager \ {m} : live'[n] = live[n]
    BY <2>1 DEF TypeOK, Empty
  <2>3. {live[m][k].serial : k \in DOMAIN live[m]} \subseteq held[m]
    BY <1>0 DEF SerialsOK
  <2>4. SerialsOK'
    BY <1>0, <2>1, <2>2, <2>3 DEF SerialsOK
  <2>5. ASSUME NEW n \in Manager, NEW k \in DOMAIN live'[n], live'[n][k].serial \in closed'
        PROVE  \E o \in Manager \ {n} : live'[n][k].serial \in held'[o]
    <3>1. n # m /\ k \in DOMAIN live[n] /\ live'[n][k] = live[n][k]
      BY <2>2
    <3>2. CASE live[n][k].serial \in closed
      BY <2>1, <3>1, <3>2 DEF SInv, OnlySharedSourcesAreClosed
    <3>3. CASE live[n][k].serial \in held[m]
      BY <2>1, <3>1, <3>3
    <3> QED
      BY <2>1, <2>3, <2>5, <3>1, <3>2, <3>3
  <2> QED
    BY <2>4, <2>5 DEF SInv, OnlySharedSourcesAreClosed
<1>9. ASSUME NEW m \in Manager, NEW c \in cells, MakeFromDataframe(m, c)
      PROVE  SInv'
  <2> DEFINE from == Effective(c)
             d    == descOf[from][c.id]
             shut == d.key \notin DOMAIN live[from]
             s    == IF shut THEN NewSource(d) ELSE live[from][d.key]
  <2>1. from \in Manager /\ c.id \in DOMAIN descOf[from] /\ d \in Descriptor
    BY <1>9 DEF MakeFromDataframe, Effective, TypeOK, Cell
  <2>2. s \in Source /\ s.key = d.key
    BY <2>1, FoundSourceLemma
  <2>3. /\ live' = [n \in Manager |->
                      IF n \in {from, m} THEN Bind(live[n], s.key, s) ELSE live[n]]
        /\ held' = [n \in Manager |->
                      IF n \in {from, m} THEN held[n] \cup {s.serial} ELSE held[n]]
        /\ made' = (IF shut THEN made + 1 ELSE made) /\ closed' = closed
    BY <1>9 DEF MakeFromDataframe
  <2>4. CASE shut
    <3>1. s.serial = made + 1 /\ s.serial \notin closed
      BY <1>0, <2>1, <2>4, NewIsOpen
    <3> HIDE DEF s, from
    <3>2. made' \in Nat /\ made <= made' /\ s.serial <= made'
      BY <1>0, <2>3, <2>4, <3>1
    <3> QED
      BY <2>1, <2>2, <2>3, <3>1, <3>2, ShareLemma
  <2>5. CASE ~shut
    <3>1. s = live[from][d.key] /\ d.key \in DOMAIN live[from]
      BY <2>5
    <3>2. s.serial \in held[from] /\ s.serial <= made
      BY <1>0, <2>1, <3>1 DEF SerialsOK
    <3>3. s.serial \in closed => \E o \in Manager \ {from} : s.serial \in held[o]
      BY <2>1, <3>1 DEF SInv, OnlySharedSourcesAreClosed
    <3> HIDE DEF s, from
    <3>4. \A n \in Manager : held[n] \subseteq held'[n]
      BY <2>3
    <3>5. s.serial \in closed =>
            \A n \in {from, m} : \E o \in Manager \ {n} : s.serial \in held'[o]
      BY <2>1, <3>2, <3>3, <3>4
    <3>6. made' \in Nat /\ made <= made' /\ s.serial <= made'
      BY <1>0, <2>3, <2>5, <3>2
    <3> QED
      BY <2>1, <2>2, <2>3, <3>5, <3>6, ShareLemma
  <2> QED
    BY <2>4, <2>5
<1> QED
  BY <1>2, <1>5, <1>6, <1>7, <1>8, <1>9 DEF Next

(* A manager never holds a source it closed, and one that another manager  *)
(* closed only if both were given the same object.                         *)
THEOREM ClosedMeansShared == Spec => []OnlySharedSourcesAreClosed
<1>1. Init => SInv
  BY DEF Init, SInv, SerialsOK, OnlySharedSourcesAreClosed, Empty
<1>2. IInv /\ SInv /\ [Next]_vars => SInv'
  BY SharedStep
<1>3. SInv => OnlySharedSourcesAreClosed
  BY DEF SInv
<1> QED
  BY <1>1, <1>2, <1>3, Invariance, PTL DEF Spec
=============================================================================
