-------------------------------- MODULE MCParts --------------------------------
(***************************************************************************)
(* Parts that call no other, each on its own: one exchange of either       *)
(* client, or the cache with three keys, limits below, at and above what   *)
(* they fill, the limits 0 and -1 a configuration file can set, and a time *)
(* to live that is negative, 0 and shorter than the clock runs.            *)
(***************************************************************************)
EXTENDS AICandidateCache, TcpExchange, HttpExchange

CONSTANTS k1, k2, k3, v1, v2

SomeLimits == {-1, 0, 1, 2}
SomeTtls == {-1, 0, 1}

VARIABLE part
partsVars == <<part, vars, tcpVars, httpVars>>

(* The parts that do not run are there in one way only.                    *)
PartsInit ==
  /\ part \in {"daemon", "backend", "cache"}
  /\ Init /\ TcpInit /\ HttpInit
  /\ part # "cache" => max_entries = 0 /\ ttl = 0
  /\ part # "backend" => backend = "ollama_posix"

OfDaemon(Step) == part = "daemon" /\ Step /\ UNCHANGED <<part, vars, httpVars>>
OfBackend(Step) == part = "backend" /\ Step /\ UNCHANGED <<part, vars, tcpVars>>
OfCache(Step) == part = "cache" /\ Step /\ UNCHANGED <<part, tcpVars, httpVars>>

PartsNext == OfDaemon(TcpNext) \/ OfBackend(HttpNext) \/ OfCache(Next)

(* HttpFairness, said of the whole.                                        *)
PartsFairness == WF_partsVars(OfBackend(BackendStep)) /\ WF_partsVars(OfBackend(Pass))
PartsSpec == PartsInit /\ [][PartsNext]_partsVars /\ PartsFairness
================================================================================
