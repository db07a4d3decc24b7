------------------------------ MODULE Methods ------------------------------
(***************************************************************************)
(* The RPC methods of the eleven services and of the key-value engine, as  *)
(* their three source files define them: which lock the method runs under  *)
(* (server/*_impl.cpp), which servers a proxy sends it to                  *)
(* (server/*_proxy.cpp), and what it does to the model                     *)
(* (server/*_serv.cpp).                                                    *)
(*                                                                         *)
(* A lock is "R" (JRLOCK_), "W" (JWLOCK_, which also tells the mixer that  *)
(* the model changes) or "N" (NOLOCK_).  A route is "random", "broadcast"  *)
(* or the number of the servers that consistent hashing finds for the      *)
(* key, "cht1" or "cht2".  An effect is "read" or "change"; the methods    *)
(* that run under NOLOCK_ and look after themselves are "counted" (they    *)
(* change the model under the write lock and tell the mixer), "quiet"      *)
(* (they do not tell it) or "late" (they tell it under the lock, and       *)
(* change the model after they have given it back).                        *)
(*                                                                         *)
(* The setup of a service is what set_config does, in its order: keep the  *)
(* text in config_, build the "driver" of it, and hand that to the mixer.  *)
(***************************************************************************)
EXTENDS Naturals, Sequences

Each(S, v) == [x \in S |-> v]
f ++ g == [x \in DOMAIN f \cup DOMAIN g |-> IF x \in DOMAIN f THEN f[x] ELSE g[x]]

(* get_config, save, load and get_status, which every service has. *)
CommonLocks == Each({"get_config", "save", "get_status"}, "R") ++ Each({"load"}, "W")
CommonRoutes == Each({"get_config"}, "random") ++ Each({"save", "load", "get_status"}, "broadcast")

-----------------------------------------------------------------------------
(* anomaly *)

AnomalyLocks ==
  Each({"clear_row", "update", "overwrite", "clear"}, "W")
    ++ Each({"calc_score", "get_all_rows"}, "R") ++ Each({"add"}, "N")
AnomalyRoutes ==
  Each({"clear_row", "update", "overwrite"}, "cht2")
    ++ Each({"clear"}, "broadcast") ++ Each({"add", "calc_score", "get_all_rows"}, "random")
AnomalyEffects ==
  Each({"clear_row", "update", "overwrite", "clear"}, "change")
    ++ Each({"calc_score", "get_all_rows"}, "read") ++ Each({"add"}, "counted")
AnomalySetup == <<"config", "driver", "mixer">>

(* bandit: choosing an arm counts the trial, so it is a change. *)

(* Variant: select_arm is taken for a query. *)
BanditLocksQuery ==
  Each({"register_arm", "delete_arm", "register_reward", "reset", "clear"}, "W")
    ++ Each({"select_arm", "get_arm_info"}, "R")

BanditLocks ==
  Each({"register_arm", "delete_arm", "select_arm", "register_reward", "reset", "clear"}, "W")
    ++ Each({"get_arm_info"}, "R")
BanditRoutes ==
  Each({"select_arm", "register_reward", "get_arm_info"}, "cht1")
    ++ Each({"register_arm", "delete_arm", "reset", "clear"}, "broadcast")
BanditEffects ==
  Each({"register_arm", "delete_arm", "select_arm", "register_reward", "reset", "clear"}, "change")
    ++ Each({"get_arm_info"}, "read")
BanditSetup == <<"config", "driver", "mixer">>

(* burst *)

BurstReads == {"get_result", "get_result_at", "get_all_bursted_results",
               "get_all_bursted_results_at", "get_all_keywords"}
BurstLocks ==
  Each({"add_documents", "add_keyword", "remove_keyword", "remove_all_keywords", "clear"}, "W")
    ++ Each(BurstReads, "R")
BurstRoutes ==
  Each({"get_result", "get_result_at"}, "cht2") ++ Each({"get_all_keywords"}, "random")
    ++ Each({"add_documents", "get_all_bursted_results", "get_all_bursted_results_at",
             "add_keyword", "remove_keyword", "remove_all_keywords", "clear"}, "broadcast")
BurstEffects ==
  Each({"add_documents", "add_keyword", "remove_keyword", "remove_all_keywords", "clear"}, "change")
    ++ Each(BurstReads, "read")
BurstSetup == <<"config", "driver", "mixer">>

(* classifier: it keeps the lock only to tell the mixer. *)

ClassifierLocks ==
  Each({"train", "classify", "get_labels", "set_label", "clear", "delete_label"}, "N")
ClassifierRoutes ==
  Each({"train", "classify", "get_labels"}, "random")
    ++ Each({"set_label", "clear", "delete_label"}, "broadcast")
ClassifierEffects ==
  Each({"train", "set_label", "clear", "delete_label"}, "late")
    ++ Each({"classify", "get_labels"}, "read")
ClassifierSetup == <<"config", "driver", "mixer">>

(* clustering *)

ClusteringReads == {"get_revision", "get_core_members", "get_core_members_light",
                    "get_k_center", "get_nearest_center", "get_nearest_members",
                    "get_nearest_members_light"}
ClusteringLocks == Each({"push", "clear"}, "W") ++ Each(ClusteringReads, "R")
ClusteringRoutes == Each({"push"} \cup ClusteringReads, "random") ++ Each({"clear"}, "broadcast")
ClusteringEffects == Each({"push", "clear"}, "change") ++ Each(ClusteringReads, "read")
ClusteringSetup == <<"config", "driver", "mixer">>

(* graph: the methods that other servers call are never sent by a proxy. *)

GraphQueries == {"add_centrality_query", "add_shortest_path_query",
                 "remove_centrality_query", "remove_shortest_path_query"}
GraphInternal == {"create_node_here", "remove_global_node", "create_edge_here"}
GraphReads == {"get_centrality", "get_shortest_path", "get_node", "get_edge"}
GraphUpdates == {"update_node", "update_edge", "remove_edge", "update_index", "clear"}
GraphLocks ==
  Each({"create_node", "remove_node", "create_edge"}, "N") ++ Each(GraphReads, "R")
    ++ Each(GraphUpdates, "W")
    ++ Each(GraphQueries \cup GraphInternal, "W")
GraphRoutes ==
  Each({"create_node", "get_centrality", "get_shortest_path"}, "random")
    ++ Each({"create_edge"}, "cht1")
    ++ Each({"remove_node", "update_node", "update_edge", "remove_edge",
             "get_node", "get_edge"}, "cht2")
    ++ Each(GraphQueries \cup {"update_index", "clear"}, "broadcast")
GraphEffects ==
  Each({"create_node", "create_edge"}, "quiet") ++ Each({"remove_node"}, "counted")
    ++ Each(GraphUpdates, "change")
    ++ Each(GraphQueries \cup GraphInternal, "change") ++ Each(GraphReads, "read")
GraphSetup == <<"config", "driver", "mixer">>

(* nearest_neighbor: queries rely on the table's own lock. *)

NeighborQueries == {"neighbor_row_from_id", "neighbor_row_from_datum",
                    "similar_row_from_id", "similar_row_from_datum", "get_all_rows"}
NeighborLocks == Each({"clear", "set_row"}, "W") ++ Each(NeighborQueries, "N")
NeighborRoutes ==
  Each({"clear"}, "broadcast") ++ Each({"set_row"}, "cht1") ++ Each(NeighborQueries, "random")
NeighborEffects == Each({"clear", "set_row"}, "change") ++ Each(NeighborQueries, "read")
NeighborSetup == <<"config", "driver", "mixer">>

(* recommender *)

RecommenderByRow == {"complete_row_from_id", "similar_row_from_id", "decode_row"}
RecommenderByDatum == {"complete_row_from_datum", "similar_row_from_datum", "get_all_rows",
                       "calc_similarity", "calc_l2norm"}
RecommenderLocks ==
  Each({"clear_row", "update_row", "clear"}, "W")
    ++ Each(RecommenderByRow \cup RecommenderByDatum, "R")
(* Variant: rows are updated on one server, as the other services do. *)
RecommenderRoutesSingle ==
  Each({"clear_row"} \cup RecommenderByRow, "cht2") ++ Each({"update_row"}, "cht1")
    ++ Each(RecommenderByDatum, "random") ++ Each({"clear"}, "broadcast")

RecommenderRoutes ==
  Each({"clear_row", "update_row"} \cup RecommenderByRow, "cht2")
    ++ Each(RecommenderByDatum, "random") ++ Each({"clear"}, "broadcast")
RecommenderEffects ==
  Each({"clear_row", "update_row", "clear"}, "change")
    ++ Each(RecommenderByRow \cup RecommenderByDatum, "read")
RecommenderSetup == <<"config", "driver", "mixer">>

(* regression *)

RegressionLocks == Each({"train", "clear"}, "W") ++ Each({"estimate"}, "R")
RegressionRoutes == Each({"train", "estimate"}, "random") ++ Each({"clear"}, "broadcast")
RegressionEffects == Each({"train", "clear"}, "change") ++ Each({"estimate"}, "read")
RegressionSetup == <<"config", "driver", "mixer">>

(* stat *)

StatReads == {"sum", "stddev", "max", "min", "entropy", "moment"}
StatLocks == Each({"push", "clear"}, "W") ++ Each(StatReads, "R")
StatRoutes == Each({"push"} \cup StatReads, "cht1") ++ Each({"clear"}, "broadcast")
StatEffects == Each({"push", "clear"}, "change") ++ Each(StatReads, "read")
StatSetup == <<"config", "driver", "mixer">>

(* weight: no method takes a lock, and none tells the mixer. *)

WeightLocks == Each({"update", "calc_weight", "clear"}, "N")
WeightRoutes == Each({"update", "calc_weight"}, "random") ++ Each({"clear"}, "broadcast")
WeightEffects == Each({"update", "clear"}, "change") ++ Each({"calc_weight"}, "read")
(* The constructor hands the mixer the driver that is still to be built. *)
WeightCreated == <<"mixer">>
WeightSetup == <<"driver", "config">>

(* kvs: it needs no configuration. *)

KvsLocks == Each({"put"}, "W") ++ Each({"get", "get_average"}, "R")
KvsRoutes == Each({"put", "get"}, "cht1") ++ Each({"get_average"}, "random")
KvsEffects == Each({"put"}, "change") ++ Each({"get", "get_average"}, "read")
KvsCreated == <<"driver", "mixer">>
KvsSetup == <<"config">>

-----------------------------------------------------------------------------

Services == [
  anomaly          |-> [locks |-> AnomalyLocks, routes |-> AnomalyRoutes,
                        effects |-> AnomalyEffects, setup |-> AnomalySetup],
  bandit           |-> [locks |-> BanditLocks, routes |-> BanditRoutes,
                        effects |-> BanditEffects, setup |-> BanditSetup],
  burst            |-> [locks |-> BurstLocks, routes |-> BurstRoutes,
                        effects |-> BurstEffects, setup |-> BurstSetup],
  classifier       |-> [locks |-> ClassifierLocks, routes |-> ClassifierRoutes,
                        effects |-> ClassifierEffects, setup |-> ClassifierSetup],
  clustering       |-> [locks |-> ClusteringLocks, routes |-> ClusteringRoutes,
                        effects |-> ClusteringEffects, setup |-> ClusteringSetup],
  graph            |-> [locks |-> GraphLocks, routes |-> GraphRoutes,
                        effects |-> GraphEffects, setup |-> GraphSetup],
  nearest_neighbor |-> [locks |-> NeighborLocks, routes |-> NeighborRoutes,
                        effects |-> NeighborEffects, setup |-> NeighborSetup],
  recommender      |-> [locks |-> RecommenderLocks, routes |-> RecommenderRoutes,
                        effects |-> RecommenderEffects, setup |-> RecommenderSetup],
  regression       |-> [locks |-> RegressionLocks, routes |-> RegressionRoutes,
                        effects |-> RegressionEffects, setup |-> RegressionSetup],
  stat             |-> [locks |-> StatLocks, routes |-> StatRoutes,
                        effects |-> StatEffects, setup |-> StatSetup],
  weight           |-> [locks |-> WeightLocks, routes |-> WeightRoutes,
                        effects |-> WeightEffects, setup |-> WeightCreated \o WeightSetup],
  kvs              |-> [locks |-> KvsLocks, routes |-> KvsRoutes,
                        effects |-> KvsEffects, setup |-> KvsCreated \o KvsSetup]]

Lock(s, m) == (Services[s].locks ++ CommonLocks)[m]
Effect(s, m) == Services[s].effects[m]
Route(s, m) == (Services[s].routes ++ CommonRoutes)[m]

(* The mixer has got the driver, and not what was there before it. *)
MixerHasDriver(s) ==
  LET setup == Services[s].setup IN
  \E i, j \in DOMAIN setup : i < j /\ setup[i] = "driver" /\ setup[j] = "mixer"

=============================================================================
