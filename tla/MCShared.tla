------------------------------ MODULE MCShared ------------------------------
EXTENDS SharedFolder, TLC

CONSTANTS c1, c2

NoFaults == {}

\* A structural request that runs.
Block ==
    [shape |-> "rectangular", material |-> TRUE, kind |-> "structural",
     length |-> "high", mesh |-> "high", diameter |-> "low",
     width |-> "high", height |-> "high", load |-> "high",
     temperature |-> "absent", difference |-> "absent", reference |-> "low"]

OneEdit == {Block}

\* Nothing, and what a failed run leaves beside older results.
LeftOver(inputText, resultsText, statusText, errorText) ==
    [input |-> inputText, results |-> resultsText,
     status |-> statusText, error |-> errorText]

SomeLeftovers ==
    {LeftOver("absent", "absent", "absent", "absent"),
     LeftOver("whole", "whole", "FAILED", "whole")}

Interchangeable == Permutations(Calls)
=============================================================================
