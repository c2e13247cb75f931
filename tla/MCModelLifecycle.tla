-------------------------- MODULE MCModelLifecycle --------------------------
EXTENDS ModelLifecycle, TLC
CONSTANTS whisper, voice, qwenA, qwenB, stt, piper, worker, u1
MCModel == {whisper, voice, qwenA, qwenB}
MCProvider == {stt, piper, worker}
MCAt == (whisper :> stt) @@ (voice :> piper) @@ (qwenA :> worker) @@ (qwenB :> worker)
MCAsked == {<<"load", qwenB>>, <<"download", qwenB>>, <<"unload", whisper>>,
            <<"delete", voice>>, <<"delete", qwenA>>}
=============================================================================
