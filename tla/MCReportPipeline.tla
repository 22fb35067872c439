-------------------------- MODULE MCReportPipeline --------------------------
(* ReportPipeline around a new year. *)
EXTENDS ReportPipeline, TLC

CONSTANTS d1, d2

MCDevices == {d1, d2}
MCDateAt == 0 :> [year |-> 2023, month |-> 12, day |-> 31]
              @@ 1 :> [year |-> 2024, month |-> 1, day |-> 1]

=============================================================================
