----------------------------- MODULE MCDrivers -----------------------------
(* The drivers of DriverTable, run alone and in pairs.                      *)
EXTENDS DriverTable, Drivers

\* They compare the container after their requests; heldout_quality and
\* integrated_serving compare it before, coding_benchmark never.
MCAttesting == {"web_coding_benchmark", "readme_benchmarks"}
=============================================================================
