------------------------------ MODULE MCConfig ------------------------------
(* Small sets of texts, options, lines and environments for Config. *)
EXTENDS Config

MCChannels == {"aeron:default", "aeron:file", "aeron:env", "aeron:cli"}

MCNumeral == [n \in {"-1", "0", "8"} |-> CASE n = "-1" -> -1 [] n = "0" -> 0 [] n = "8" -> 8]

Option(name, values) == {[name |-> name, value |-> v] : v \in values}

MCArguments ==
  Option("config", {"", "file"}) \cup Option("aeron_dir", {"", "cli"}) \cup
  Option("archive_control", {"cli"}) \cup Option("pub_stream_id", {"-1", "8", "text"}) \cup
  Option("gap_tolerance", {"0", "text"}) \cup
  {[name |-> o, value |-> ""] : o \in {"print_config", "help"}}

MCSections == {"", "publication", "archive"}

Entry(key, values) == {[key |-> key, value |-> v] : v \in values}

MCEntries ==
  Entry("stream_id", {"0", "8", "text"}) \cup Entry("channel", {"", "aeron:file"}) \cup
  Entry("control_request_channel", {"text"})

Unset == [f \in EnvFields |-> ""]

MCEnvironments ==
  {Unset,
   [Unset EXCEPT !["aeron_dir"] = "env", !["archive_control_request_channel"] = "aeron:env",
                 !["publication_channel"] = "aeron:env"],
   [Unset EXCEPT !["subscription_channel"] = "text"]}
=============================================================================
