----------------------------- MODULE MCCommand ------------------------------
(* An instance of Command: processes started in the ways that take different *)
(* paths, and the answers an API can give to a request of two heartbeats.    *)
EXTENDS Command

MCKeyPattern == ("project_api_key.a" :> "^a" @@ "project_api_key.b" :> "(")
MCNumber == ("0" :> 0 @@ "1" :> 1 @@ "-1" :> -1 @@ "1585598059.1" :> 1)

Extra == [type |-> "file", converts |-> TRUE, time |-> "1", timestamp |-> ""]
BadExtra == [Extra EXCEPT !.time = ""]

-----------------------------------------------------------------------------
Nothing == [key \in {} |-> ""]

Modes ==
  {"entity" :> "e", "sync-offline-activity" :> "1", "today" :> "true", "today-goal" :> "uuid",
   "today-goal" :> "g", "useragent" :> "true", "version" :> "true", "file" :> "e", Nothing,
   "offline-count" :> "true", "config-write" :> "a=b",
   ("config-write" :> "a=b") @@ ("config-section" :> ""),
   "config-read" :> "debug",
   ("config-read" :> "proxy") @@ ("config-section" :> "settings"),
   ("entity" :> "e") @@ ("today" :> "true")}

Keys == {Nothing, "key" :> "bad", "settings.api_key" :> "waka",
         ("key" :> "waka") @@ ("project_api_key.a" :> "bad"),
         ("key" :> "waka") @@ ("project_api_key.b" :> "bad")}
Proxies == {Nothing, "proxy" :> "ntlm", "settings.proxy" :> "ntlm:pw", "proxy" :> "?"}
Logs == {Nothing, "settings.debug" :> "true"}
Tls == {Nothing, "ssl-certs-file" :> "gone", ("no-ssl-verify" :> "true") @@ ("ssl-certs-file" :> "gone")}
Queues == {Nothing, "settings.offline" :> "false", ("disable-offline" :> "true") @@ ("settings.offline" :> "true"),
           "internal.backoff_at" :> "now"}
Syncs == {Nothing, "sync-offline-activity" :> "none", "sync-offline-activity" :> "1", "sync-offline-activity" :> "x"}
Stdins == {<<>>, <<Extra>>, <<BadExtra>>}

Process(settings, stdin, parses) == [v |-> settings, stdin |-> stdin, open |-> FALSE, parses |-> parses]

(* Parameters that do not load, or load in different ways                    *)
Loading ==
  {Process(m @@ k @@ x @@ t @@ ("verbose" :> "true"), <<>>, TRUE) : m \in Modes, k \in Keys, x \in Proxies, t \in Tls}

(* Heartbeats, with the queue and the sync that follows                      *)
Reporting ==
  {Process(("entity" :> "e") @@ ("key" :> "waka") @@ ("extra-heartbeats" :> "true") @@ x @@ l @@ q @@ s, stdin, parses) :
     x \in {Nothing, "proxy" :> "ntlm", "settings.proxy" :> "ntlm:pw"}, l \in Logs, q \in Queues, s \in Syncs, stdin \in Stdins,
     parses \in BOOLEAN}

(* Extra heartbeats on a stdin that is kept open, and no client to send them *)
Waiting ==
  {[Process(("entity" :> "e") @@ ("key" :> "waka") @@ ("extra-heartbeats" :> "true") @@ ("settings.proxy" :> "ntlm:pw") @@ q,
            stdin, TRUE) EXCEPT !.open = TRUE] : q \in Queues, stdin \in Stdins}

(* Heartbeats whose own parameters do not load                               *)
Invalid ==
  {Process(wrong @@ ("entity" :> "e") @@ ("key" :> "waka"), <<>>, parses) :
     wrong \in {"category" :> "c", "entity-type" :> "t", "git.submodules_disabled" :> "(",
                "hidefilenames" :> "(", "settings.hide_branch_names" :> "(", "entity" :> ""},
     parses \in BOOLEAN}

MCCall == Loading \cup Reporting \cup Waiting \cup Invalid

-----------------------------------------------------------------------------
MCOld == {11, 12}

A(status, json, parts) == [status |-> status, json |-> json, parts |-> parts]

MCAnswer ==
  {A(status, FALSE, <<>>) : status \in {"ok", "auth", "bad", "other"}}
    \cup {A("ok", TRUE, parts) :
            parts \in UNION {[1..k -> {"ok", "other"}] : k \in 0..3}
              \cup {<<"bad">>, <<"ok", "bad">>, <<"ok", "short">>, <<"malformed">>, <<"unexplained", "short">>}}

=============================================================================
