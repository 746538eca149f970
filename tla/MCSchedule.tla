----------------------------- MODULE MCSchedule ------------------------------
(* Schedule for TLC.  A day of two minutes of two ticks: an instant may be *)
(* on a minute or within it.  Nine days hold every weekday after every     *)
(* other and a Sunday that comes round.                                    *)
EXTENDS Schedule
=============================================================================
