------------------------------ MODULE Catalog -------------------------------
(***************************************************************************)
(* The laboratory's catalogue: experiment types (experiments/), equipment  *)
(* with its capacity, status and capabilities, and recipes (equipment/).   *)
(* None of its handlers takes a row lock, and each is one statement or one *)
(* transaction, so each is one step here.  Names, descriptions and         *)
(* parameters are left out: no other component's guard reads them.         *)
(***************************************************************************)
EXTENDS Naturals, LimsStatus

CONSTANTS
    ExpTypes,         \* ids of experiment types
    Equipments,       \* ids of equipment rows
    SeedTypes,        \* types and
    SeedEquipment,    \* equipment present before the first request,
    SeedCapacity,     \* each machine of the seed holding this many wafers
    EditedTypes,      \* the types and
    EditedEquipment,  \* the machines that staff edit during the run
    CapacityInputs    \* the capacities they may enter (a bound of the model)

ASSUME CatalogAssumption ==
    /\ SeedTypes \subseteq ExpTypes
    /\ SeedEquipment \subseteq Equipments
    /\ SeedCapacity \in Nat \ {0}
    /\ EditedTypes \subseteq ExpTypes
    /\ EditedEquipment \subseteq Equipments
    /\ CapacityInputs \subseteq Nat \ {0}

VARIABLES
    typeStatus,       \* "none", "active" or "retired" (is_active = False)
    recipeTypes,      \* the types some active recipe targets
    equipStatus,      \* "none" or an EquipmentStatus
    equipCapacity,    \* Equipment.capacity
    capable           \* EquipmentCapability rows, per equipment

catalogVars == <<typeStatus, recipeTypes, equipStatus, equipCapacity, capable>>

CatalogTypeOK ==
    /\ typeStatus \in [ExpTypes -> {"none", "active", "retired"}]
    /\ recipeTypes \subseteq ExpTypes
    /\ equipStatus \in [Equipments -> EquipmentStatuses \cup {"none"}]
    /\ equipCapacity \in [Equipments -> Nat]
    /\ capable \in [Equipments -> SUBSET ExpTypes]

CatalogInit ==
    /\ typeStatus = [t \in ExpTypes |->
                        IF t \in SeedTypes THEN "active" ELSE "none"]
    /\ recipeTypes = SeedTypes
    /\ equipStatus = [e \in Equipments |->
                        IF e \in SeedEquipment THEN "available" ELSE "none"]
    /\ equipCapacity = [e \in Equipments |-> SeedCapacity]
    /\ capable = [e \in Equipments |->
                        IF e \in SeedEquipment THEN SeedTypes ELSE {}]

ActiveTypes == {t \in ExpTypes : typeStatus[t] = "active"}

\* _validate_experiment_type_ids does not look at is_active.
ExistingTypes == {t \in ExpTypes : typeStatus[t] # "none"}

CreateExperimentType(t) ==
    /\ typeStatus[t] = "none"
    /\ typeStatus' = [typeStatus EXCEPT ![t] = "active"]
    /\ UNCHANGED <<recipeTypes, equipStatus, equipCapacity, capable>>

\* The soft delete: nothing checks whether requests or WIPs still need the type.
DeleteExperimentType(t) ==
    /\ typeStatus[t] = "active"
    /\ typeStatus' = [typeStatus EXCEPT ![t] = "retired"]
    /\ UNCHANGED <<recipeTypes, equipStatus, equipCapacity, capable>>

CreateRecipe(t) ==
    /\ t \in ExistingTypes
    /\ recipeTypes' = recipeTypes \cup {t}
    /\ UNCHANGED <<typeStatus, equipStatus, equipCapacity, capable>>

\* The soft delete of the last active recipe of type t.
DeleteRecipe(t) ==
    /\ t \in recipeTypes
    /\ recipeTypes' = recipeTypes \ {t}
    /\ UNCHANGED <<typeStatus, equipStatus, equipCapacity, capable>>

CreateEquipment(e, n, T) ==
    /\ equipStatus[e] = "none"
    /\ T \subseteq ExistingTypes
    /\ equipStatus' = [equipStatus EXCEPT ![e] = "available"]
    /\ equipCapacity' = [equipCapacity EXCEPT ![e] = n]
    /\ capable' = [capable EXCEPT ![e] = T]
    /\ UNCHANGED <<typeStatus, recipeTypes>>

\* PATCH: any subset of the fields.  A field that is not sent keeps its value.
UpdateEquipment(e, st, n) ==
    /\ equipStatus[e] # "none"
    /\ equipStatus' = [equipStatus EXCEPT ![e] = st]
    /\ equipCapacity' = [equipCapacity EXCEPT ![e] = n]
    /\ UNCHANGED <<typeStatus, recipeTypes, capable>>

SetEquipmentCapabilities(e, T) ==
    /\ equipStatus[e] # "none"
    /\ T \subseteq ExistingTypes
    /\ capable' = [capable EXCEPT ![e] = T]
    /\ UNCHANGED <<typeStatus, recipeTypes, equipStatus, equipCapacity>>

CatalogNext ==
    \/ \E t \in EditedTypes :
        \/ CreateExperimentType(t)
        \/ DeleteExperimentType(t)
        \/ CreateRecipe(t)
        \/ DeleteRecipe(t)
    \/ \E e \in EditedEquipment :
        \/ \E n \in CapacityInputs, T \in SUBSET ExpTypes : CreateEquipment(e, n, T)
        \/ \E st \in EquipmentStatuses, n \in CapacityInputs \cup {equipCapacity[e]} :
            UpdateEquipment(e, st, n)
        \/ \E T \in SUBSET ExpTypes : SetEquipmentCapabilities(e, T)
=============================================================================
