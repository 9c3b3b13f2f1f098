-------------------------- MODULE MCInvestigation ---------------------------
(* Two servers that are both up, one down or both down, and one where they *)
(* offer the same tool.  No server offers the tool "made_up".              *)
EXTENDS Investigation

MCServers == {"victorialogs", "reports"}
MCTools == {"search_logs", "save_report", "made_up"}

Offer(logs, reports) ==
    [s \in MCServers |-> IF s = "reports" THEN reports ELSE logs]

MCListings ==
    {Offer(logs, reports) : logs \in {{}, {"search_logs"}}, reports \in {{}, {"save_report"}}}
    \cup {Offer({"search_logs"}, {"search_logs", "save_report"})}
=============================================================================
