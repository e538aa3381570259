---------------------- MODULE MCAppointmentScheduling ----------------------
(* Instances of AppointmentScheduling for TLC.                             *)
EXTENDS AppointmentScheduling, TLC

Everything == {"create", "publish", "intake", "facts", "mail", "record", "ascend", "turvo",
               "timeout", "confirm", "tender", "log", "raise"}
=============================================================================
