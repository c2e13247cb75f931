----------------------------- MODULE MCProviders -----------------------------
(* Two models on a worker; a backend in the process and a worker that      *)
(* always offers k and may offer n, for TLC.                               *)
EXTENDS Providers
CONSTANTS a, b, kokoro, qwen3, k, n, t1, t2
MCModel == {a, b}
MCEngines == {"qwen3", "cosyvoice", "chatterbox"}
MCLocal == {kokoro}
MCExternal == {qwen3}
MCName == {k, n}
MCKept == {k}
MCThread == {t1, t2}
=============================================================================
