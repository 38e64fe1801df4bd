----------------------------- MODULE FormSteps -----------------------------
(***************************************************************************)
(* MultiStepForm of src/components/MultiStepForm/MultiStepForm.jsx.  Going *)
(* forward awaits the validation of the step one is on; every callback     *)
(* works with the step, the data and the visited steps of the render it    *)
(* belongs to, and nothing keeps the user from acting meanwhile.           *)
(***************************************************************************)
EXTENDS Naturals, FiniteSets

CONSTANTS LastStep,   \* steps are 0..LastStep
          MaxPending  \* bound on the validations under way

ASSUME FormAssumption == LastStep \in Nat /\ MaxPending \in Nat

VARIABLES
    currentStep,
    data,       \* data[s]: whether the part of step s would pass its validation
    visited,    \* visitedSteps
    errors,     \* the steps with an entry in stepErrors
    pending,    \* the callbacks that await a validation
    submitted   \* what onSubmit() was last given, or Nothing

formVars == <<currentStep, data, visited, errors, pending, submitted>>

Steps == 0..LastStep
Nothing == [s \in {} |-> TRUE]
Parts == [Steps -> BOOLEAN]
PendingCalls == [op : {"go", "submit"}, at : Steps, to : Steps, data : Parts, visited : SUBSET Steps]

FormTypeOK == /\ currentStep \in Steps
              /\ data \in Parts
              /\ visited \subseteq Steps /\ errors \subseteq Steps
              /\ pending \subseteq PendingCalls
              /\ submitted \in Parts \cup {Nothing}

FormInit == /\ currentStep = 0
            /\ data = [s \in Steps |-> FALSE]
            /\ visited = {0}
            /\ errors = {}
            /\ pending = {}
            /\ submitted = Nothing

\* updateStepData(): a step edits its own part.
Edit == /\ data' = [data EXCEPT ![currentStep] = ~@]
        /\ UNCHANGED <<currentStep, visited, errors, pending, submitted>>

\* A callback that goes forward or submits begins to validate the current step.
Await(op, to) ==
    /\ Cardinality(pending) < MaxPending
    /\ pending' = pending \cup {[op |-> op, at |-> currentStep, to |-> to,
                                 data |-> data, visited |-> visited]}
    /\ UNCHANGED <<currentStep, data, visited, errors, submitted>>

\* goToNextStep()
NextStep == currentStep < LastStep /\ Await("go", currentStep + 1)

\* goToPreviousStep()
PreviousStep == /\ currentStep > 0
                /\ currentStep' = currentStep - 1
                /\ UNCHANGED <<data, visited, errors, pending, submitted>>

\* The progress indicator lets one click what getStepStatus() calls completed.
Clickable(s) == s \notin errors /\ (s < currentStep \/ s \in visited)

\* goToStep()
GoForward(s) == s > currentStep /\ Clickable(s) /\ Await("go", s)
GoBack(s) == /\ s < currentStep /\ Clickable(s)
             /\ currentStep' = s
             /\ UNCHANGED <<data, visited, errors, pending, submitted>>

\* handleSubmit(), from the button of the last step.
Submit == currentStep = LastStep /\ Await("submit", currentStep)

Passed(c) == c.data[c.at]

\* The validation found errors.
Reject(c) == /\ ~Passed(c)
             /\ errors' = errors \cup {c.at}
             /\ pending' = pending \ {c}
             /\ UNCHANGED <<currentStep, data, visited, submitted>>

\* It threw: the step is refused without an error of its own.
Throw(c) == /\ pending' = pending \ {c}
            /\ UNCHANGED <<currentStep, data, visited, errors, submitted>>

\* It passed: on to the step, or out with the data as they were then.
Pass(c) ==
    /\ Passed(c)
    /\ errors' = errors \ {c.at}
    /\ pending' = pending \ {c}
    /\ IF c.op = "submit"
       THEN /\ submitted' = c.data
            /\ UNCHANGED <<currentStep, visited>>
       ELSE /\ IF c.to \in c.visited \/ c.to <= c.at + 1
               THEN currentStep' = c.to /\ visited' = visited \cup {c.to}
               ELSE UNCHANGED <<currentStep, visited>>
            /\ UNCHANGED submitted
    /\ UNCHANGED data

FormNext == \/ Edit \/ NextStep \/ PreviousStep \/ Submit
            \/ \E s \in Steps : GoForward(s) \/ GoBack(s)
            \/ \E c \in pending : Reject(c) \/ Throw(c) \/ Pass(c)

FormSpec == FormInit /\ [][FormNext]_formVars

-----------------------------------------------------------------------------
(* Properties. *)

\* "Step validation before advancing": every part of what is submitted passes
\* the validation of its step.
SubmittedIsValid == submitted # Nothing => \A s \in Steps : submitted[s]
=============================================================================
