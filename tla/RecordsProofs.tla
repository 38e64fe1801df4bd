---------------------------- MODULE RecordsProofs ----------------------------
(***************************************************************************)
(* The components of Records side by side: what the other proof modules    *)
(* prove of each of them holds of it while the others are there.           *)
(***************************************************************************)
EXTENDS Records, ApprovalManagementProofs, RowsProofs, MemoryProofs, SessionStoreProofs,
        ReportingLinesProofs, TLAPS

\* A step of the composition is one of each component or leaves it alone.
LEMMA RecordsSteps ==
    [RecordsNext]_recordVars =>
        /\ [Next]_vars /\ [EnvelopeNext]_envelopeVars /\ [ProfileNext]_profileVars
        /\ [SessionNext]_sessionVars /\ [ScheduleNext]_scheduleVars
        /\ [DepartmentNext]_departmentVars /\ [PolicyNext]_policyVars
        /\ [WorkflowNext]_workflowVars /\ [ImportNext]_importVars /\ [RequestNext]_requestVars
        /\ [ExecutionNext]_executionVars /\ [BucketNext]_bucketVars /\ [LinesNext]_lineVars
<1> SUFFICES ASSUME [RecordsNext]_recordVars
             PROVE  /\ [Next]_vars /\ [EnvelopeNext]_envelopeVars /\ [ProfileNext]_profileVars
                    /\ [SessionNext]_sessionVars /\ [ScheduleNext]_scheduleVars
                    /\ [DepartmentNext]_departmentVars /\ [PolicyNext]_policyVars
                    /\ [WorkflowNext]_workflowVars /\ [ImportNext]_importVars
                    /\ [RequestNext]_requestVars /\ [ExecutionNext]_executionVars
                    /\ [BucketNext]_bucketVars /\ [LinesNext]_lineVars
  OBVIOUS
<1>1. CASE UNCHANGED recordVars
  BY <1>1 DEF recordVars
<1>2. CASE RecordsNext
  BY <1>2 DEF RecordsNext
<1> QED BY <1>1, <1>2

\* The composition implements the specification of each of its components.
THEOREM RecordsRunTheirComponents ==
    RecordsSpec => /\ Spec /\ EnvelopeSpec /\ ProfileSpec /\ SessionSpec /\ ScheduleSpec
                   /\ DepartmentSpec /\ PolicySpec /\ WorkflowSpec /\ ImportSpec
                   /\ RequestSpec /\ ExecutionSpec /\ BucketSpec /\ LinesSpec
<1>1. RecordsInit => /\ Init /\ EnvelopeInit /\ ProfileInit /\ SessionInit /\ ScheduleInit
                     /\ DepartmentInit /\ PolicyInit /\ WorkflowInit /\ ImportInit
                     /\ RequestInit /\ ExecutionInit /\ BucketInit /\ LinesInit
  BY DEF RecordsInit
<1> QED BY <1>1, RecordsSteps, PTL
        DEF RecordsSpec, Spec, EnvelopeSpec, ProfileSpec, SessionSpec, ScheduleSpec,
            DepartmentSpec, PolicySpec, WorkflowSpec, ImportSpec, RequestSpec, ExecutionSpec,
            BucketSpec, LinesSpec

\* Every variable of every component keeps its type.
THEOREM RecordsTypes == RecordsSpec => []TypesOK
<1>1. TypeOK /\ EnvelopeTypeOK /\ ProfileTypeOK /\ SessionTypeOK /\ ScheduleTypeOK
      /\ DepartmentTypeOK /\ PolicyTypeOK /\ BucketTypeOK /\ WorkflowTypeOK
      /\ ImportTypeOK /\ RequestTypeOK /\ ExecutionTypeOK /\ LinesTypeOK => TypesOK
  BY DEF TypesOK
<1> QED BY <1>1, RecordsRunTheirComponents, TypeCorrect, EnvelopeTypes, ProfileTypeCorrect,
           SessionTypes, ScheduleTypes, DepartmentTypes, PolicyTypes, WorkflowTypes,
           ImportTypes, RequestTypes, ExecutionTypes, BucketTypes, LinesTypes, PTL

\* All that the components promise, of the composition that TLC checks.
THEOREM RecordsKeepTheirPromises ==
    RecordsSpec =>
        /\ [](/\ SentWithinShares /\ StampsCoverAnswers /\ DecidedIsAudited /\ TwiceOnlyIfRaced
              /\ TrailIsHistory /\ DecisionsMatchEffects /\ TrailLeadsToStatus
              /\ RowsAreCounted /\ DeletedStaysDeleted /\ LiveIsTracked /\ StaysLawful
              /\ CyclesNeedARace /\ VersionsAreHistory /\ OneTierHolds /\ BookedOnce
              /\ RevertsWhatWasKept /\ CyclesAreExplained)
        /\ LegalUnlessRaced
        /\ ApprovedValueStands
        /\ MovedUnderActive
  BY RecordsRunTheirComponents, BucketSentWithinShares, AnswersKeepTheirStamps,
     DecisionsAreReported, OnlyRacesDecideTwice, EnvelopeTrailIsHistory,
     EnvelopeLegalUnlessRaced, ProfileDecisionsMatchEffects, ProfileApprovedValueStands,
     WorkflowTrailLeadsToStatus, ImportRowsAreCounted, SessionDeletedStaysDeleted,
     SessionLiveIsTracked, ScheduleStaysLawful, DepartmentCyclesNeedARace,
     PolicyVersionsAreHistory, PolicyOneTierHolds, RequestsBookedOnce,
     ExecutionRevertsWhatWasKept, CyclesExplained, MoveUnderActive, PTL
=============================================================================
