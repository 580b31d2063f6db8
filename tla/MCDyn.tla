------------------------------- MODULE MCDyn -------------------------------
EXTENDS DynService

CONSTANTS c1, c2

NoFaults == {}

AllFaults == {"write", "interrupt"} \X Calls

\* A hand written thermal request.
ThermalRod ==
    [shape |-> "cylinder", material |-> TRUE, kind |-> "thermal",
     length |-> "high", mesh |-> "high", diameter |-> "high",
     width |-> "absent", height |-> "absent", load |-> "absent",
     temperature |-> "high", difference |-> "absent", reference |-> "high"]

\* What the packaged server writes for a block.
ToolBlock ==
    [ThermalRod EXCEPT !.shape = "rectangular", !.kind = "structural",
                       !.diameter = "low", !.width = "high", !.height = "high",
                       !.load = "high", !.temperature = "absent",
                       !.reference = "absent"]

\* The same with the key added that the generator needs.
Block == [ToolBlock EXCEPT !.reference = "low"]

FlatBlock == [Block EXCEPT !.height = "low"]

BlockWithNaN == [Block EXCEPT !.length = "nan"]

\* A word where the reference temperature should be.
RodWithWord == [ThermalRod EXCEPT !.reference = "text"]

OneEdit == {ThermalRod}

SomeEdits == {ThermalRod, BlockWithNaN, ToolBlock, FlatBlock, RodWithWord}

\* Every directory there can be, and some for two runs: nothing, what a completed
\* run leaves, and what runs of either pipeline cut off half way leave.
AllLeftovers ==
    [input : DataTexts, results : DataTexts, status : StatusTexts, error : DataTexts]

LeftOver(inputText, resultsText, statusText, errorText) ==
    [input |-> inputText, results |-> resultsText,
     status |-> statusText, error |-> errorText]

SomeLeftovers ==
    {LeftOver("absent", "absent", "absent", "absent"),
     LeftOver("whole", "whole", "COMPLETED", "absent"),
     LeftOver("empty", "empty", "STARTING", "whole")}
=============================================================================
