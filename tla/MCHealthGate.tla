---------------------------- MODULE MCHealthGate ----------------------------
\* Gates of every shape, in ticks of half a second.
EXTENDS HealthGate

Plain(kind) ==
  [kind |-> kind, startPeriod |-> Unset, interval |-> Unset, httpInterval |-> Unset,
   timeout |-> Unset, httpTimeout |-> Unset, retries |-> 0, cliMax |-> 240]

MCSettings ==
  {[Plain("http") EXCEPT !.timeout = 3],                        \* 5s, the minimum
   [Plain("http") EXCEPT !.interval = 0],                       \* default pause
   [Plain("http") EXCEPT !.startPeriod = 8, !.httpInterval = 4,
                         !.cliMax = 14],                        \* cut short by the limit
   [Plain("http") EXCEPT !.cliMax = 2],                         \* limit below the minimum
   [Plain("http") EXCEPT !.retries = 3, !.interval = 5,
                         !.httpTimeout = 6, !.cliMax = 0],      \* no limit
   [Plain("exec") EXCEPT !.timeout = 3, !.interval = 3, !.retries = 2],
   [Plain("exec") EXCEPT !.startPeriod = -4, !.timeout = 1, !.interval = 7]}

\* An HTTP probe and nothing else, as in most contracts.
Usual == {Plain("http")}
=============================================================================
