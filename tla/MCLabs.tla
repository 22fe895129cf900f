------------------------------- MODULE MCLabs -------------------------------
(* The programs that run in one thread: a behaviour is one of the cache    *)
(* simulator on traces of any kind, test-trans on chosen sizes, btest, the *)
(* driver of the performance lab, Tiny with a few files and clients, and a *)
(* caller of the Rio package that asks one connection for lines and bytes  *)
(* as it likes.  The others stand still.                                   *)
EXTENDS TransTest, Btest, PerfLab, Tiny

labsVars == <<vars, btestVars, perfVars, tinyVars>>

MCConfigs == {[s |-> 1, lines |-> 2, b |-> 1], [s |-> 0, lines |-> 3, b |-> 1],
              [s |-> 1, lines |-> 1, b |-> 0]}
MCAddrs   == {0, 1, 2, 4, 6, 8}
MCSizes   == {<<32, 32>>, <<64, 64>>, <<61, 67>>, <<4, 256>>, <<0, 8>>}
MCMarkers == <<524288, 524289>>
MCDraws   == {77, -99}
MCDims    == <<2>>

MCFiles == "./home.html" :> [kind |-> "file", readable |-> TRUE, runnable |-> FALSE,
                             type |-> "text/html", body |-> <<"b1", "b2">>]
        @@ "./empty"     :> [kind |-> "file", readable |-> TRUE, runnable |-> FALSE,
                             type |-> "text/plain", body |-> <<>>]
        @@ "./dir"       :> [kind |-> "dir", readable |-> TRUE, runnable |-> TRUE,
                             type |-> "text/plain", body |-> <<>>]
        @@ "./adder"     :> [kind |-> "file", readable |-> TRUE, runnable |-> TRUE,
                             type |-> "text/plain", body |-> <<"b1">>]

MCUri(cgi, slash, path, args) ==
  [cgi |-> cgi, slash |-> slash, path |-> path, args |-> args]
MCUriOf == "/"        :> MCUri(FALSE, TRUE, "./", {})
        @@ "/empty"   :> MCUri(FALSE, FALSE, "./empty", {})
        @@ "/dir"     :> MCUri(FALSE, FALSE, "./dir", {})
        @@ "/adder&"  :> MCUri(TRUE, FALSE, "./adder", {"&"})
        @@ "/adder"   :> MCUri(TRUE, FALSE, "./adder", {})
        @@ "/none"    :> MCUri(TRUE, FALSE, "./none", {})

End        == <<"cr", "nl">>
Get(u)     == <<"GET", u, "nl">>
MCRequests == {Get(u) \o End : u \in DOMAIN MCUriOf}
              \cup {Get("/") \o <<"h", "nl">> \o End,
                    <<"GET", "/dir", "h", "cr", "nl">> \o End,   \* a long line
                    <<"POST", "/", "nl">> \o End \o <<"h">>}

MCStreams == {<<"a", "nl", "b", "c", "d", "nl">>, <<"nl", "a", "b">>, <<>>}

-----------------------------------------------------------------------------
SimIdle   == Start(Sets5, Required) /\ scanned = [type |-> "L", addr |-> 0]
TestIdle(run) ==
  /\ phase = run /\ size = <<1, 1>> /\ tile = 0 /\ B = <<>> /\ pending = <<>>
  /\ results = [correct |-> 0, misses |-> 0]
BtestIdle == test = 0 /\ arg = Done /\ failed = {}
PerfIdle  ==
  /\ bench = "rotate" /\ testNum = 0 /\ stage = "off" /\ dim = 0 /\ cpes = <<>> /\ pixels = <<>>
  /\ counter = <<0, 0>> /\ values = <<>> /\ samplecount = 0 /\ taken = <<>>

TinyIdle(lab) ==
  /\ wire = <<>> /\ ending = "eof" /\ rio = Empty /\ call = Idle /\ reply = <<>>
  /\ todo = <<>> /\ out = <<>> /\ reading = TRUE
  /\ at = lab /\ buf = <<>> /\ sent = <<>> /\ uri = "/"

CallerIdle == at = "caller" /\ buf = <<>> /\ sent = wire /\ uri = "/"
MCCaller   == at = "caller" /\ IO(CallerNext(0 .. 4))

MCInit ==
  \/ SimInit    /\ TestIdle("free")  /\ BtestIdle /\ PerfIdle /\ TinyIdle("off")
  \/ TestInit   /\ BtestIdle /\ PerfIdle /\ TinyIdle("off")
  \/ BtestInit  /\ SimIdle /\ TestIdle("btest") /\ PerfIdle  /\ TinyIdle("off")
  \/ PerfInit   /\ SimIdle /\ TestIdle("perf")  /\ BtestIdle /\ TinyIdle("off")
  \/ TinyInit   /\ SimIdle /\ TestIdle("tiny")  /\ BtestIdle /\ PerfIdle
  \/ CallerInit(MCStreams) /\ CallerIdle /\ SimIdle /\ TestIdle("tiny")  /\ BtestIdle /\ PerfIdle

MCNext ==
  \/ phase = "free" /\ SimNext   /\ UNCHANGED <<testVars, btestVars, perfVars, tinyVars>>
  \/ TestNext                    /\ UNCHANGED <<btestVars, perfVars, tinyVars>>
  \/ phase = "btest" /\ BtestNext /\ UNCHANGED <<vars, perfVars, tinyVars>>
  \/ phase = "perf" /\ PerfNext  /\ UNCHANGED <<vars, btestVars, tinyVars>>
  \/ phase = "tiny" /\ (TinyNext \/ MCCaller) /\ UNCHANGED <<vars, btestVars, perfVars>>

MCSpec == MCInit /\ [][MCNext]_labsVars /\ TinyFairness
=============================================================================
