------------------------------ MODULE MCCheckCli ------------------------------
(* Instances of CheckCli for TLC. *)
EXTENDS CheckCliProofs

CONSTANT orders

MCPlans == {<<>>, <<orders>>}
MCRowCounts == {3}

Timeout(s, l) == [statement |-> s, lock |-> l]
MCDefault == Timeout(2, 1)
MCConfigs == {MCDefault, Timeout(0, 1), Timeout(3, 0), Timeout(0, 0)}

\* Clean, one warning, one error.
MCSummaries == {[errors |-> 0, warnings |-> 0], [errors |-> 0, warnings |-> 1],
                [errors |-> 1, warnings |-> 0]}

File(is) == [is |-> is]
ConfigFile(c) == [is |-> "config", config |-> c]
MCFiles == {File("absent"), File("unreadable"), File("invalid"),
            ConfigFile(Timeout(0, 1)), ConfigFile(Timeout(3, 0)),
            ConfigFile(Timeout(0, 0))}

Invocation(sql, explicit, files, urls, format, failOn) ==
  [sql |-> sql, explicit |-> explicit, files |-> files, urls |-> urls,
   format |-> format, failOn |-> failOn]

ByUrl == <<"url", "unset", "unset">>
NoFile == <<File("absent")>>

\* Each group varies one thing: the SQL and the output options, the
\* configuration file in two directories, the explicit file, the URL sources.
MCInvocations ==
  {Invocation(sql, FALSE, NoFile, ByUrl, format, failOn) :
     sql \in SqlInputs, format \in {"text", "json"}, failOn \in {"error", "warning"}}
  \union {Invocation("admitted", FALSE, <<f, g>>, ByUrl, "json", "error") :
            f \in MCFiles, g \in MCFiles}
  \union {Invocation("admitted", TRUE, <<f>>, ByUrl, "text", "warning") : f \in MCFiles}
  \union {Invocation("admitted", FALSE, NoFile, <<a, b, c>>, "text", "error") :
            a \in {"unset", "empty", "url"}, b \in UrlSources, c \in UrlSources}
=============================================================================
