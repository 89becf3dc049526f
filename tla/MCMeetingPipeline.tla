-------------------------- MODULE MCMeetingPipeline --------------------------
(* The batches TLC checks have their bounds in the configuration.          *)
EXTENDS MeetingPipeline
=============================================================================
