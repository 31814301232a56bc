---------------------------- MODULE CatalogForms ----------------------------
(***************************************************************************)
(* The laboratory's and the manager's forms over the catalogue             *)
(* (LabEquipment with EquipmentModal, MgrRecipes with RecipeModal): one    *)
(* tab has a form open, and everybody else acts through the JSON API and   *)
(* the legacy pages.  The edit of a machine is two calls, the second only  *)
(* when the form's capabilities differ from those that the list had shown  *)
(* when the form was opened; each call may fail, the form then stays open  *)
(* with an error, and its button may be pressed again.                     *)
(***************************************************************************)
EXTENDS Pages, WebChannel, Sequences

VARIABLE form         \* the form that is open, if one is

Machine(e) == [fields |-> <<equipStatus[e], equipCapacity[e]>>, caps |-> capable[e]]

NoMachine == [fields |-> <<"none", 0>>, caps |-> {}]

\* What the form is for, the row it is about, the types (or recipes) it lists,
\* the machine as it was listed and as it is typed, the calls still to be made,
\* whether it has closed as saved, and the parts of the machine that somebody
\* else wrote since it was listed, or a call whose answer was lost.
NoForm == [kind |-> "none", on |-> Nil, listed |-> {},
           was |-> NoMachine, typed |-> NoMachine,
           calls |-> <<>>, saved |-> FALSE, unsure |-> {}]

\* The bound of the instances: forms are used before the first request, which
\* none of their calls looks at.
Quiet == \A r \in Requests : reqStatus[r] = "none"

-----------------------------------------------------------------------------
\* The machine as it may be typed: the boxes are those of the active types, and
\* the capabilities for others stay.
Typed(f) ==
    {[fields |-> <<st, n>>, caps |-> (f.was.caps \ f.listed) \cup T] :
        st \in EquipmentStatuses,
        n \in (CapacityInputs \cup {f.was.fields[2]}) \ {0},
        T \in SUBSET f.listed}

\* Mutated form: only what has been ticked counts as a change.
CallsIfTicked(was, typed) ==
    IF typed.caps \subseteq was.caps THEN <<"fields">> ELSE <<"fields", "caps">>

CallsFor(was, typed) ==
    IF typed.caps = was.caps THEN <<"fields">> ELSE <<"fields", "caps">>

OpenEdit(e) ==
    /\ form = NoForm /\ Quiet
    /\ equipStatus[e] # "none"
    /\ form' = [NoForm EXCEPT !.kind = "edit", !.on = e, !.listed = ActiveTypes,
                              !.was = Machine(e)]
    /\ UNCHANGED vars

OpenOther ==
    /\ form = NoForm /\ Quiet
    /\ form' \in {[NoForm EXCEPT !.kind = "machine", !.listed = ActiveTypes],
                 [NoForm EXCEPT !.kind = "recipe", !.listed = ActiveTypes],
                 [NoForm EXCEPT !.kind = "recipes", !.listed = recipeTypes]}
    /\ UNCHANGED vars

PressSave ==
    /\ form.kind = "edit" /\ form.calls = <<>> /\ ~form.saved
    /\ \E m \in Typed(form) :
        form' = [form EXCEPT !.typed = m, !.calls = CallsFor(form.was, m)]
    /\ UNCHANGED vars

SaveCall ==
    /\ \/ /\ Head(form.calls) = "fields"
          /\ UpdateEquipment(form.on, form.typed.fields[1], form.typed.fields[2])
       \/ /\ Head(form.calls) = "caps"
          /\ SetEquipmentCapabilities(form.on, form.typed.caps)
    /\ UNCHANGED <<commissionVars, wipVars, dispatchVars, verdictVars>>

SaveAnswered ==
    /\ form.calls # <<>>
    /\ SaveCall
    /\ LET unsure == form.unsure \ {Head(form.calls)} IN
       form' = IF Len(form.calls) > 1
               THEN [form EXCEPT !.calls = Tail(@), !.unsure = unsure]
               ELSE [NoForm EXCEPT !.kind = "edit", !.on = form.on, !.saved = TRUE,
                                   !.typed = form.typed, !.unsure = unsure]

\* Refused, or lost; or carried out, and the answer lost.
SaveFails ==
    /\ form.calls # <<>>
    /\ \/ UNCHANGED vars /\ form' = [form EXCEPT !.calls = <<>>, !.typed = NoMachine]
       \/ SaveCall /\ form' = [form EXCEPT !.calls = <<>>, !.typed = NoMachine,
                                           !.unsure = @ \cup {Head(form.calls)}]

\* The other forms are one call.  It closes them, unless its answer is lost; the
\* list of recipes is read again.
OtherCall ==
    /\ \/ /\ form.kind = "machine"
          /\ \E e \in Equipments, n \in CapacityInputs, T \in SUBSET form.listed :
                CreateEquipment(e, n, T)
          /\ form' \in {NoForm, form}
       \/ /\ form.kind = "recipe"
          /\ \E t \in form.listed : CreateRecipe(t)
          /\ form' \in {NoForm, form}
       \/ /\ form.kind = "recipes"
          /\ \E t \in form.listed : DeleteRecipe(t)
          /\ form' \in {[form EXCEPT !.listed = recipeTypes'], form}
    /\ UNCHANGED <<commissionVars, wipVars, dispatchVars, verdictVars>>

CloseForm == form # NoForm /\ form.calls = <<>> /\ form' = NoForm /\ UNCHANGED vars

\* Everybody else.
Others ==
    /\ Next \/ WebCatalogPages
    /\ form = NoForm \/ Quiet'
    /\ form' = IF form.kind # "edit" THEN form
               ELSE [form EXCEPT !.unsure = @ \cup
                        {p \in {"fields", "caps"} : \E e \in {form.on} :
                            Machine(e)[p]' # Machine(e)[p]}]

FormsNext ==
    \/ \E e \in Equipments : OpenEdit(e)
    \/ OpenOther
    \/ PressSave
    \/ SaveAnswered
    \/ SaveFails
    \/ OtherCall
    \/ CloseForm
    \/ Others

FormsSpec == Init /\ form = NoForm /\ [][FormsNext]_<<vars, form>>

-----------------------------------------------------------------------------
\* "Equipment updated": when the form of a machine has closed as saved, each of
\* its two parts is stored as it was typed, unless somebody else wrote it
\* meanwhile or the answer to an earlier attempt was lost, although the two are
\* sent by calls that fail apart, the second may be left out, and the first may
\* have been sent before by an attempt that failed (EquipmentModal.submit with
\* capsChanged, update_equipment, set_equipment_capabilities).
SavedIsStored ==
    form.saved =>
        \A p \in {"fields", "caps"} \ form.unsure :
            Machine(form.on)[p] = form.typed[p]

\* Whenever the page of a batch offers a new dispatch, its form offers the
\* machines and recipes that the server takes, all of them and only them, but
\* that it does not look whether the machine is available and has room
\* (useDispatchCreationData and LabWipDetail, over the gates of create_dispatch,
\* whatever staff and the legacy pages did to machines and recipes meanwhile).
DispatchFormMatches ==
    \A w \in Wips : "create_dispatch" \in WipButtons(ReadWip(w)) =>
        \A e \in Equipments :
            (\E d \in Dispatches : ENABLED CreateDispatch(w, d, e)) <=>
                /\ e \in MachinesFor(wipType[w])
                /\ RecipesFor(wipType[w]) # {}
                /\ equipStatus[e] = "available"
                /\ Cardinality(wipSamples[w]) <= RemainingCapacity(e)
                /\ \E d \in Dispatches : dStatus[d] = "none"
=============================================================================
