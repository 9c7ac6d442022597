------------------------------ MODULE EditForm ------------------------------
(* The form of an edit page (lib/forms.tsx) that saves through the mutation  *)
(* of QueryCache.  Its fields are one value, and its state is the library's  *)
(* (react-hook-form), modelled from what FormWrapper asks of it.             *)
EXTENDS QueryCache

CONSTANT Values     \* what the fields can hold (bound)

VARIABLES
    form,       \* default and current values, and the guard's isDirty
    lost        \* history: an edit was lost when the document was left unasked

formVars == <<form, lost>>

IsDirty == form.now # form.default

\* The effect that listens to beforeunload is run again when isDirty changes:
\* guard is the value its listener has.
FormMounted(v) == [default |-> v, now |-> v, guard |-> FALSE]

FormInit == \E v \in Values : form = FormMounted(v) /\ lost = FALSE

\* Mutant of EditField: the effect is run once, when the form is mounted.
EditUnguarded ==
    /\ \E v \in Values : form' = [form EXCEPT !.now = v]
    /\ UNCHANGED <<cacheVars, lost>>

EditField ==
    /\ \E v \in Values :
         form' = [form EXCEPT !.now = v, !.guard = v # form.default]
    /\ UNCHANGED <<cacheVars, lost>>

\* The buttons of FormActions: disabled while the mutation runs and while
\* nothing was edited.
MaySave == write.phase = "idle" /\ IsDirty

\* handleSubmit(onSubmit): the mutation is sent; nothing resets the form, so
\* that it is as dirty after a success as before.
SubmitForm ==
    /\ MaySave
    /\ SendWrite
    /\ UNCHANGED formVars

\* The document is left and opened again: the browser asks if the guard
\* prevents it, and the visitor stays.
LeaveDocument ==
    /\ ~form.guard
    /\ lost' = (lost \/ IsDirty)
    /\ \E v \in Values : form' = FormMounted(v)
    /\ ForgetAll

\* A link of the router is no unload: the form goes unasked.
FollowLink ==
    /\ \E v \in Values : form' = FormMounted(v)
    /\ UNCHANGED <<cacheVars, lost>>

FormNext ==
    \/ EditField \/ SubmitForm \/ LeaveDocument \/ FollowLink
    \/ UNCHANGED formVars /\ (Read \/ OthersWrite)
    \/ UNCHANGED formVars /\ (ServerWrites \/ WriteSucceeds \/ WriteFails)

FormTypeOK ==
    /\ form \in [default : Values, now : Values, guard : BOOLEAN]
    /\ lost \in BOOLEAN

\* Closing the tab or following an address out of the application never throws
\* an edit away unasked, whatever was typed, saved or taken back before.
NoEditLostOnUnload == ~lost
=============================================================================
