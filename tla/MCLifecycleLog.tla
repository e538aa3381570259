--------------------------- MODULE MCLifecycleLog ---------------------------
(* Instances of LifecycleLog for TLC, with the requests of the program.    *)
EXTENDS LifecycleLog, LifecycleRequests, TLC

AllSubs ==
  {"none", "cancelled", "resolved_manually", "uploaded_to_tms",
   "reminder_1_sent", "reminder_2_sent", "reminder_3_sent", "escalated",
   "driver_assignment_started", "ratecon_started", "pod_started",
   "document_uploaded", "document_processed",
   "tender_created", "tender_sent_to_tenant", "tender_sent_to_carrier",
   "accepted", "rejected",
   "appointment_scheduling_started", "appointment_draft_created",
   "awaiting_customer_reply", "appointment_scheduled"}

\* What the callers of each workflow send.
ProgramRequests ==
  [f \in Workflows |->
     [v \in [status : Statuses, sub : AllSubs] |->
        CASE f = "driver_assignment" -> DriverAssignment(v)
          [] f = "ratecon" -> Ratecon(v)
          [] f = "pod_lifecycle" -> PodLifecycle(v)
          [] f = "load_tendering" -> LoadTendering(v)
          [] f = "appointment_scheduling" -> AppointmentScheduling(v)]]

Symmetry == Permutations(Callers)
=============================================================================
