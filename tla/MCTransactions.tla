--------------------------- MODULE MCTransactions ---------------------------
\* The calls that race and the states they race in: two requests of two wafers
\* each, two experiment types, four WIPs.
EXTENDS Transactions

MCRequests == {"r1", "r2"}
MCSamples == {"s1", "s2", "s3", "s4"}
MCTypes == {"t1", "t2"}
MCWips == {"w1", "w2", "w3", "w4"}
MCDispatches == {"d1", "d2", "d3", "d4", "d5", "d6"}
MCOwner == [s \in MCSamples |-> IF s \in {"s1", "s2"} THEN "r1" ELSE "r2"]
MCTypeOf == [w \in MCWips |-> IF w \in {"w1", "w4"} THEN "t1" ELSE "t2"]
MCWipOf == [d \in MCDispatches |->
    CASE d = "d2" -> "w2" [] d = "d3" -> "w3" [] d = "d4" -> "w4"
      [] OTHER -> "w1"]

Bare(op, on) == [op |-> op, on |-> on]

\* The calls about r1 and its wafers, and about w1 and its run d1.
RequestCalls ==
    {Bare(op, "r1") : op \in {"submit", "approve", "cancel", "ship",
                              "delete_draft"}}
    \cup {Bare(op, s) : op \in {"receive", "void"}, s \in {"s1", "s2"}}
    \cup {Bare("return", "s2")}
RunCalls ==
    {Bare(op, "d1") : op \in {"start", "unload", "record_result",
            "equipment_result", "finalize", "report_exception",
            "abort_dispatch"}}
    \cup {[op |-> "redispatch", on |-> "d1", new |-> "d6"],
          [op |-> "add_samples", on |-> "w1", samples |-> {"s2"}]}
    \cup {Bare(op, "w1") : op \in {"complete_wip", "abort_wip"}}
OtherCalls ==
    {[op |-> "create_wip", on |-> "w1", samples |-> {"s1"}],
     [op |-> "create_wip", on |-> "w2", samples |-> {"s1", "s2"}],
     Bare("create_dispatch", "d1"), Bare("create_dispatch", "d5"),
     Bare("finalize", "d2"), Bare("unload", "d2")}

\* Any two calls, and any three about a run or about a request.
AllCalls == RequestCalls \cup RunCalls \cup OtherCalls
MCRaces ==
    {{a, b} : a \in AllCalls, b \in AllCalls}
    \cup {{a, b, c} : a \in RunCalls, b \in RunCalls,
                     c \in RunCalls \cup OtherCalls}
    \cup {{a, b, c} : a \in RequestCalls, b \in RequestCalls,
                     c \in RequestCalls}

\* A database in which nothing is there but the rows of f.
Blank == [row \in Rows |-> "none"]
Filed(status, ss) ==
    [row \in {Request("r1")} |-> status] @@ [row \in {Sample("s1")} |-> ss[1]]
        @@ [row \in {Sample("s2")} |-> ss[2]] @@ Blank

\* The laboratory has r1 (and r2, whose wafers nothing else touches).
Lab(ss) ==
    [row \in {Progress(s, t) : s \in MCSamples, t \in MCTypes} |-> "pending"]
        @@ [row \in {Request("r2")} |-> "in_progress"]
        @@ [row \in {Sample("s3"), Sample("s4")} |-> "received"]
        @@ Filed("in_progress", ss)

\* w holds S, and its run d has come to status st.
Batch(w, S, d, st, rows) ==
    [row \in {Member(w, s) : s \in S} |-> "in"]
        @@ [row \in {Wip(w)} |-> IF st = "completed" THEN "completed"
                                 ELSE IF st = "none" THEN "created"
                                 ELSE "in_progress"]
        @@ [row \in {Dispatch(d)} |-> st]
        @@ [row \in {Progress(s, MCTypeOf[w]) : s \in S} |-> rows]
        @@ [row \in {Sample(s) : s \in S} |-> "processing"]

Runs == {"pending", "running", "execution_exception"}

MCStartDbs ==
    {Filed("draft", <<"created", "created">>),
     Filed("approved", <<"created", "created">>)}
    \cup {Filed("sample_shipped", <<a, b>>) :
            a \in {"shipped", "receiving_exception"},
            b \in {"shipped", "receiving_exception"}}
    \cup {Lab(<<"received", "received">>),
          Lab(<<"processing_exception", "processing_exception">>),
          Batch("w1", {"s1"}, "d1", "none", "pending")
            @@ Lab(<<"received", "received">>)}
    \cup {Batch("w1", {"s1"}, "d1", st, "in_progress")
            @@ Lab(<<"received", "received">>) : st \in Runs}
    \cup {Batch("w1", {"s1"}, "d1", "unloaded", "d1")
            @@ Lab(<<"received", "received">>)}
    \cup {Batch("w1", {"s1", "s2"}, "d1", "running", "in_progress")
            @@ Batch("w2", {"s1", "s2"}, "d2", "running", "in_progress")
            @@ Lab(<<"received", "received">>)}
    \* w1 and w2 run the last experiments of disjoint wafers of both requests.
    \cup {Batch("w1", {"s1", "s3"}, "d1", "running", "in_progress")
            @@ Batch("w2", {"s2", "s4"}, "d2", "running", "in_progress")
            @@ Batch("w3", {"s1", "s3"}, "d3", "completed", "d3")
            @@ Batch("w4", {"s2", "s4"}, "d4", "completed", "d4")
            @@ Lab(<<"received", "received">>)}

\* Two batches are made of one received wafer, and the first is aborted.
MCStaleRaces ==
    {{[op |-> "create_wip", on |-> "w1", samples |-> {"s1"}],
      [op |-> "create_wip", on |-> "w2", samples |-> {"s1", "s2"}],
      Bare("abort_wip", "w1")}}
MCStaleDbs == {Lab(<<"received", "received">>)}
=============================================================================
