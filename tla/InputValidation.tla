-------------------------- MODULE InputValidation --------------------------
(***************************************************************************)
(* validate_input and what the generators of                               *)
(* create_ansys_project_backup.py read of a request, as predicates on the  *)
(* kinds of value a request may hold.  Every refusal is a raise into the   *)
(* one handler of main, so that the order of the checks is left out.       *)
(***************************************************************************)
\* "text" is anything float() refuses: a word, a null, a list.  "low" is zero
\* or less, "nan" is JSON's NaN, which json.load takes.
Values == {"absent", "text", "nan", "low", "high"}

Shapes == {"absent", "cylinder", "rectangular", "other"}

\* "thermal" is any analysis type with that word in it.
Kinds == {"absent", "structural", "thermal"}

Requests ==
    [shape : Shapes, material : BOOLEAN, kind : Kinds,
     length : Values, mesh : Values, diameter : Values, width : Values, height : Values,
     load : Values, temperature : Values, difference : Values, reference : Values]

Present(v) == v # "absent"

\* float(v) returns.
IsNumber(v) == v \in {"nan", "low", "high"}

\* float(data.get(key, 0)) returns.
NumberOrDefault(v) == ~Present(v) \/ IsNumber(v)

\* Mutant: a dimension that is present and a number will do.
AnyDimension(v) == IsNumber(v)

\* v <= 0 is False of NaN.
Dimension(v) == IsNumber(v) /\ v # "low"

IsThermal(r) == r.kind = "thermal"

-----------------------------------------------------------------------------
(* validate_input *)

RequiredAccepted(r) ==
    /\ Present(r.shape) /\ r.material /\ Present(r.kind)
    /\ Dimension(r.length) /\ Dimension(r.mesh)

ShapeAccepted(r) ==
    \/ r.shape = "cylinder" /\ Dimension(r.diameter)
    \/ r.shape = "rectangular" /\ Dimension(r.width) /\ Dimension(r.height)

\* Mutant: the temperatures of a thermal request are not converted.
ThermalPresent(r) ==
    IsThermal(r) =>
        (Present(r.temperature) \/ Present(r.difference)) /\ Present(r.reference)

ThermalAccepted(r) ==
    IsThermal(r) =>
        /\ Present(r.temperature) \/ Present(r.difference)
        /\ NumberOrDefault(r.temperature)
        /\ IsNumber(r.reference)

Accepted(r) == RequiredAccepted(r) /\ ShapeAccepted(r) /\ ThermalAccepted(r)

-----------------------------------------------------------------------------
(* What the generators convert; a conversion that raises ends the run too *)

\* All three dimensions are converted, whichever of them the shape has.
GeometryGenerated(r) ==
    /\ IsNumber(r.length)
    /\ \A v \in {r.diameter, r.width, r.height} : NumberOrDefault(v)

\* The difference is only looked at without a temperature.
ThermalGenerated(r) ==
    /\ IsNumber(r.mesh)
    /\ \/ IsNumber(r.temperature)
       \/ ~Present(r.temperature) /\ IsNumber(r.reference) /\ IsNumber(r.difference)

\* The structural script is part of both journals.
StructuralGenerated(r) ==
    IsNumber(r.mesh) /\ NumberOrDefault(r.load) /\ IsNumber(r.reference)

Generated(r) ==
    /\ GeometryGenerated(r)
    /\ IsThermal(r) => ThermalGenerated(r)
    /\ StructuralGenerated(r)

\* The request becomes a journal.
Runs(r) == Accepted(r) /\ Generated(r)

-----------------------------------------------------------------------------
(* What the servers write *)

\* ansys-mcpb/server.py: every key but the temperatures, all with defaults.
PackagedKeys(r) ==
    /\ ~Present(r.temperature) /\ ~Present(r.difference) /\ ~Present(r.reference)
    /\ \A v \in {r.length, r.mesh, r.diameter, r.width, r.height, r.load} : IsNumber(v)

\* mcp_server/server.py: "dimensions", "mesh_size" and "loads" are other keys.
DevelopmentKeys(r) ==
    \A v \in {r.length, r.mesh, r.diameter, r.width, r.height, r.load,
              r.temperature, r.difference, r.reference} : ~Present(v)

FromTool(r) == PackagedKeys(r) \/ DevelopmentKeys(r)

-----------------------------------------------------------------------------
(* Properties of a request *)

\* The dimensions that the generated geometry is drawn from.
Drawn(r) ==
    {r.length} \union (IF r.shape = "cylinder" THEN {r.diameter} ELSE {r.width, r.height})

\* NaN passes validation and is written into the scripts.
SizesTaken(r) == \A v \in Drawn(r) \union {r.mesh} : v \in {"high", "nan"}

\* What validation does not ask for and the generators convert: the reference
\* temperature of a request that is not thermal, a load, a dimension of the
\* other shape, the difference of a thermal request without a temperature.
Gap(r) ==
    \/ ~IsThermal(r) /\ r.reference \in {"absent", "text"}
    \/ r.load = "text"
    \/ r.shape = "cylinder" /\ "text" \in {r.width, r.height}
    \/ r.shape = "rectangular" /\ r.diameter = "text"
    \/ IsThermal(r) /\ ~Present(r.temperature) /\ r.difference = "text"
=============================================================================
