------------------------------ MODULE MCParts ------------------------------
(* The small components that share no state with each other: a behaviour   *)
(* is one of AsciiNumber, RefCountLimit, GrowthLimit, Combinators or       *)
(* ByteStrs, with the others left in one of their initial states.          *)
EXTENDS AsciiNumber, RefCountLimit, GrowthLimit, Combinators, ByteStrs

VARIABLE part

partVars == <<part, numberVars, limitVars, growVars, futureVars, strVars>>

L(i) == LeafOf(i)

MCPrograms ==
    { MapOf(L(1), "f"),
      ThenOf(L(1), "f", L(2)),
      MapOf(ThenOf(MapOf(L(1), "f"), "g", L(2)), "h"),
      ThenOf(ThenOf(L(1), "f", L(2)), "g", MapOf(L(3), "h")),
      ThenOf(L(1), "f", ThenOf(L(2), "g", L(3))) }
    \cup {ThenOf(EitherMapOf(s, MapOf(L(1), "f")), "g", EitherOf(s, L(2))) : s \in {"Left", "Right"}}

PartsInit ==
    /\ part \in {"number", "limit", "growth", "future", "string"}
    /\ NumberInit /\ (part # "number" => fn = "atou" /\ len = 0)
    /\ LimitInit
    /\ GrowInit /\ (part # "growth" => build = "release" /\ buf = NewBuf(0, 0))
    /\ FutureInit /\ (part # "future" => program = MapOf(L(1), "f") /\ ready = {})
    /\ StrInit

NumberStep ==
    part = "number" /\ NumberNext /\ UNCHANGED <<part, limitVars, growVars, futureVars, strVars>>
LimitStep ==
    part = "limit" /\ LimitNext /\ UNCHANGED <<part, numberVars, growVars, futureVars, strVars>>
GrowthStep ==
    part = "growth" /\ GrowNext /\ UNCHANGED <<part, numberVars, limitVars, futureVars, strVars>>
FutureStep ==
    part = "future" /\ FutureNext /\ UNCHANGED <<part, numberVars, limitVars, growVars, strVars>>
StringStep ==
    part = "string" /\ StrNext /\ UNCHANGED <<part, numberVars, limitVars, growVars, futureVars>>

PartsNext == NumberStep \/ LimitStep \/ GrowthStep \/ FutureStep \/ StringStep

PartsSpec ==
    /\ PartsInit /\ [][PartsNext]_partVars
    /\ WF_partVars(FutureStep /\ PollTask)
    /\ \A i \in Leaf : WF_partVars(FutureStep /\ GetsReady(i))

(* Map, Then, Either and EitherMap: every combination comes to its end     *)
(* (FutureCompletes), in the behaviours that are about a combination.      *)
PartCompletes == part = "future" => FutureCompletes
=============================================================================
