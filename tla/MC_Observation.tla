--------------------------- MODULE MC_Observation --------------------------
(* Bounds for Observation: see Observation.cfg. *)
EXTENDS Observation

MCRules == <<"agent_failure_rate", "disk_usage">>
MCWeights == [auth_failure |-> 20, memory_anomaly |-> 12, process_anomaly |-> 10]
MCCaps == [auth_failure |-> 1, memory_anomaly |-> 2, process_anomaly |-> 2]
MCHeaps == <<0, 50>>
MCLatencies == <<5, 10, 30>>
MCRates == <<5, 10, 20>>
MCGrowth == <<10, 100, 1000>>

\* Records of an object with an optional email and an amount it must have.
MCSchemaFields ==
    [Email |-> [type |-> "string", nullable |-> TRUE, format |-> "email"],
     Amount |-> [type |-> "double", nullable |-> FALSE, format |-> "none"]]
MCCustomRules ==
    {[field |-> "Amount", type |-> "range", min |-> 0, max |-> 100, values |-> {}]}
MCText(t) == [kind |-> "string", text |-> t, number |-> 0, whole |-> FALSE]
MCNumber(n) == [kind |-> "integer", text |-> "none", number |-> n, whole |-> TRUE]
MCNull == [kind |-> "null", text |-> "none", number |-> 0, whole |-> FALSE]
MCBatches ==
    [mixed |-> <<[Email |-> MCNull, Amount |-> MCNumber(5)],
                 [Email |-> MCText("word"), Amount |-> MCNumber(-1)]>>,
     suspicious |-> <<[Email |-> MCText("word"), Amount |-> MCNumber(7)]>>]

\* A field that is empty, one of strings, and one of numbers.
MCFieldStats ==
    LET Shares(s, i) == [string |-> s, int |-> i]
    IN {[population |-> 0, types |-> Shares(0, 0), mean |-> NoMean],
        [population |-> 50, types |-> Shares(100, 0), mean |-> NoMean],
        [population |-> 100, types |-> Shares(0, 100), mean |-> 10]}
=============================================================================
