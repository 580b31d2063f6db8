------------------------------- MODULE MCBeam -------------------------------
EXTENDS BeamService

CONSTANTS c1, c2

NoFaults == {}

\* Only the first call's processes fail.
FirstFails == {"write", "report", "interrupt"} \X {c1}

\* No controller is stopped, and the second call's writes succeed.
FirstWritesFail == {"write"} \X {c1}

\* Every directory there can be, and some for two calls: nothing, what a success
\* and a failure leave, and what runs of either pipeline cut off half way leave.
AllLeftovers ==
    [input : DataTexts, results : DataTexts, status : StatusTexts, error : DataTexts]

LeftOver(inputText, resultsText, statusText, errorText) ==
    [input |-> inputText, results |-> resultsText,
     status |-> statusText, error |-> errorText]

AfterSuccess == {LeftOver("whole", "whole", "SUCCESS", "absent")}

SomeLeftovers ==
    AfterSuccess \union
    {LeftOver("absent", "absent", "absent", "absent"),
     LeftOver("whole", "whole", "FAILED", "whole"),
     LeftOver("empty", "empty", "WORKBENCH_RUNNING", "empty")}
=============================================================================
