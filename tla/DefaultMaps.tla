---------------------------- MODULE DefaultMaps ----------------------------
(***************************************************************************)
(* The DefaultMap of core:collections.  Reading runs a Silver function     *)
(* that looks into the field `values`, calls the factory when the key is   *)
(* missing, and stores what it returned; storing is a closure over the     *)
(* first map.  A factory is user code: it may read, store and replace the  *)
(* fields before it returns or fails.  `reads` holds the reads that wait   *)
(* for their factory, innermost last.                                      *)
(***************************************************************************)
EXTENDS Integers, Sequences, FiniteSets, SequencesExt

CONSTANTS
  Keys,
  Values,
  Conforming,  \* values of the first factory's return type
  None,        \* no pair
  Mixed,       \* it stores by set_item after `values` was replaced
  Reentrant,   \* a factory may use the key it makes a value for
  Replace,     \* the program assigns the fields
  MaxMaps,     \* bound: maps created
  MaxReads     \* bound: reads waiting at once

ASSUME DefaultMapsAssumption ==
  /\ Conforming \subseteq Values /\ None \notin Values
  /\ Mixed \in BOOLEAN /\ Reentrant \in BOOLEAN /\ Replace \in BOOLEAN
  /\ MaxMaps \in Nat \ {0} /\ MaxReads \in Nat

VARIABLES
  maps,     \* every object.Map
  field,    \* the map that `values` holds; set_item captured the first one
  factory,  \* "first": the factory defaultmap() was given; "other"
  reads,    \* keys whose values are being made
  outcome,   \* what the last read, store or factory ended with
  known     \* history: what the program stored or was given for each key

mapsVars == <<maps, field, factory, reads, outcome, known>>

Empty == [k \in Keys |-> None]
Captured == 1
Stored(k) == maps[field][k]
NoValue == <<"null", None>>
Given(value) == <<"value", value>>
Failed(error) == <<error, None>>

(* The program touches a key a factory is working on only if Reentrant. *)
Free(k) == Reentrant \/ k \notin ToSet(reads)

-----------------------------------------------------------------------------
(* newDefaultMap *)
MapsInit ==
  /\ maps = <<Empty>> /\ field = Captured /\ factory = "first"
  /\ reads = <<>> /\ outcome = NoValue /\ known = Empty

(* get_item returns under the return contract of the first factory. *)
Returned(value) ==
  IF value \in Conforming THEN Given(value) ELSE Failed("TypeError")

Learn(k, value) ==
  known' = [known EXCEPT ![k] = IF value \in Conforming THEN value ELSE @]

(* As Read, making a value whenever there is room to. *)
ReadAlwaysMakes(k) ==
  /\ Free(k)
  /\ Len(reads) < MaxReads
  /\ reads' = Append(reads, k)
  /\ UNCHANGED <<maps, field, factory, outcome, known>>

(* get_item, as far as the factory call. *)
Read(k) ==
  /\ Free(k)
  /\ IF Stored(k) # None
       THEN /\ outcome' = Returned(Stored(k)) /\ Learn(k, Stored(k))
            /\ UNCHANGED reads
       ELSE /\ Len(reads) < MaxReads
            /\ reads' = Append(reads, k)
            /\ UNCHANGED <<outcome, known>>
  /\ UNCHANGED <<maps, field, factory>>

(* As FactoryReturns, storing into the first map. *)
FactoryReturnsCaptured(value) ==
  /\ reads # <<>>
  /\ factory = "first" => value \in Conforming
  /\ maps' = [maps EXCEPT ![Captured][Last(reads)] = value]
  /\ reads' = Front(reads)
  /\ outcome' = Returned(value) /\ Learn(Last(reads), value)
  /\ UNCHANGED <<field, factory>>

(* The value goes where `values` points now, whatever is there. *)
FactoryReturns(value) ==
  /\ reads # <<>>
  /\ factory = "first" => value \in Conforming
  /\ maps' = [maps EXCEPT ![field][Last(reads)] = value]
  /\ reads' = Front(reads)
  /\ outcome' = Returned(value) /\ Learn(Last(reads), value)
  /\ UNCHANGED <<field, factory>>

(* As FactoryFails, leaving a pair behind. *)
FactoryFailsStoring ==
  /\ reads # <<>>
  /\ maps' = [maps EXCEPT ![field][Last(reads)] = CHOOSE v \in Values : TRUE]
  /\ reads' = Front(reads)
  /\ outcome' = Failed("FactoryError")
  /\ UNCHANGED <<field, factory, known>>

FactoryFails ==
  /\ reads # <<>>
  /\ reads' = Front(reads)
  /\ outcome' = Failed("FactoryError")
  /\ UNCHANGED <<maps, field, factory, known>>

(* mapping[key] = value, through set_item. *)
SetItem(k, value) ==
  /\ Free(k) /\ (field # Captured => Mixed)
  /\ maps' = [maps EXCEPT ![Captured][k] = value]
  /\ outcome' = NoValue
  /\ known' = [known EXCEPT ![k] = value]
  /\ UNCHANGED <<field, factory, reads>>

(* mapping.values[key] = value *)
SetPair(k, value) ==
  /\ Free(k)
  /\ maps' = [maps EXCEPT ![field][k] = value]
  /\ outcome' = NoValue
  /\ known' = [known EXCEPT ![k] = value]
  /\ UNCHANGED <<field, factory, reads>>

(* mapping.values = m: one of the maps, or a new one made by core:maps. *)
SetValues(m, pairs) ==
  /\ Replace
  /\ maps' = IF m \in DOMAIN maps THEN maps ELSE Append(maps, pairs)
  /\ Len(maps') <= MaxMaps
  /\ \A k \in Keys : maps'[m][k] # None => Free(k)
  /\ field' = m
  /\ outcome' = NoValue
  /\ known' = maps'[m]
  /\ UNCHANGED <<factory, reads>>

(* mapping.factory = f *)
SetFactory ==
  /\ Replace
  /\ factory' = "other"
  /\ outcome' = NoValue
  /\ UNCHANGED <<maps, field, reads, known>>

(* maps.set and maps.delete copy the pairs they are given. *)
Copies(pairs) ==
  {[pairs EXCEPT ![k] = v] : k \in Keys, v \in Values \cup {None}}

MapsNext ==
  \/ \E k \in Keys : Read(k)
  \/ \E value \in Values : FactoryReturns(value)
  \/ FactoryFails
  \/ \E k \in Keys, value \in Values : SetItem(k, value)
  \/ \E k \in Keys, value \in Values : SetPair(k, value)
  \/ \E m \in DOMAIN maps : SetValues(m, maps[m])
  \/ \E pairs \in Copies(maps[field]) : SetValues(Len(maps) + 1, pairs)
  \/ SetFactory

MapsSpec == MapsInit /\ [][MapsNext]_mapsVars

-----------------------------------------------------------------------------
(* Every variable has its type. *)
MapsTyped ==
  /\ maps \in Seq([Keys -> Values \cup {None}])
  /\ Len(maps) \in 1 .. MaxMaps
  /\ field \in DOMAIN maps
  /\ factory \in {"first", "other"}
  /\ reads \in Seq(Keys) /\ Len(reads) <= MaxReads
  /\ outcome \in {NoValue, Failed("TypeError"), Failed("FactoryError")}
                \cup {Given(value) : value \in Values}
  /\ known \in [Keys -> Values \cup {None}]

(* What the program stored for a key, or was given when it read the key, is *)
(* in the map that reads look into.                                         *)
ReadsAgree == \A k \in Keys : known[k] # None => Stored(k) = known[k]

(* A key that has been read or stored keeps its value until the program     *)
(* stores another: a default is made once, and never over something stored. *)
DefaultsAreMadeOnce ==
  [][\A k \in Keys :
       known[k] # None /\ known'[k] # known[k] => outcome' = NoValue]_mapsVars

(* A factory that fails leaves its key absent, to be tried again: whatever  *)
(* it stored itself before failing, it stored for other keys.               *)
FailuresStoreNothing ==
  [][outcome' = Failed("FactoryError") /\ Len(reads') < Len(reads)
       => maps' = maps /\ Stored(Last(reads)) = None]_mapsVars
=============================================================================
