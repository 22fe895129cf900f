------------------------------ MODULE CacheSim ------------------------------
(* The cache simulator of the cache lab: options (params.c), one line of a *)
(* memory trace after another (csim.c), and the sets of lines (cache.c).   *)
(* A tag is the address without its set and block bits, shifted right by   *)
(* one so that it is never negative; -1 marks a line that holds nothing.   *)
(* Ticks and counts are natural numbers: a run is far shorter than 2^31.   *)
EXTENDS Integers, Sequences, FiniteSets, FiniteSetsExt, SequencesExt

CONSTANTS Configs,    \* the values of -s, -E and -b: records [s, lines, b]
          Addrs,      \* the addresses that a trace of any kind names
          MaxTick     \* accesses after which a trace of any kind ends

(* A set needs a line, and an address a bit besides its tag (see Tag). *)
ASSUME ConfigsAssumption ==
  \A c \in Configs : /\ c \in [s: Nat, lines: Nat \ {0}, b: Nat]
                     /\ c.s + c.b > 0

VARIABLES params,     \* the options, and the verdict of parse_args as err
          sets,       \* set number -> place -> [tag, ts]
          tick,       \* accesses so far
          counts,     \* [hit, miss, eviction]
          scanned     \* type and addr as the last sscanf left them

simVars == <<params, sets, tick, counts, scanned>>

-----------------------------------------------------------------------------
(* params.c *)

Required == {"s", "E", "b", "t"}

(* parse_args: -h stops with kHelp (2), so does an option getopt does not  *)
(* know; then 1 is added when one of the four is missing.                  *)
ParseErr(opts) == (IF opts \cap {"h", "?"} # {} THEN 2 ELSE 0)
                  + (IF Required \subseteq opts THEN 0 ELSE 1)

SetSize == 2 ^ params.s                                    \* setup_params

\* Mutant: the set and block bits shifted out, and the bit for the sign.
TagShort(addr) == addr \div 2 ^ (params.s + params.b + 1)

Tag(addr)   == LET low == 2 ^ (params.s + params.b)
               IN ((addr \div low) * low) \div 2
SetId(addr) == (addr \div 2 ^ params.b) % SetSize

-----------------------------------------------------------------------------
(* cache.c *)

NoLine == [tag |-> -1, ts |-> 0]     \* malloc leaves ts open; it is not read

EmptyCache(p) == [k \in 0 .. 2 ^ p.s - 1 |-> [i \in 0 .. p.lines - 1 |-> NoLine]]

Stamp(c) == c.tick + 1                                     \* ++tick

(* access_cache: the scan stops at a line with the tag or at the first     *)
(* empty one; otherwise it has looked for the smallest time stamp.  The    *)
(* results are bits that may be set together.                              *)
Access(c, addr) ==
  LET set    == c.sets[SetId(addr)]
      places == DOMAIN set
      stops  == {i \in places : set[i].tag = Tag(addr) \/ set[i].tag < 0}
      oldest == CHOOSE i \in places : \A j \in places : set[i].ts <= set[j].ts
      i      == IF stops # {} THEN Min(stops) ELSE oldest
      hit    == set[i].tag = Tag(addr)
      minTs  == IF stops # {} THEN 0 ELSE set[i].ts
      result == IF hit THEN {"hit"}
                ELSE {"miss"} \cup (IF minTs # 0 THEN {"eviction"} ELSE {})
  IN [sets   |-> [c.sets EXCEPT ![SetId(addr)][i] =
                    [tag |-> Tag(addr), ts |-> Stamp(c)]],
      tick   |-> c.tick + 1,
      counts |-> [r \in DOMAIN c.counts |->       \* handle_entry
                    c.counts[r] + (IF r \in result THEN 1 ELSE 0)]]

-----------------------------------------------------------------------------
(* csim.c *)

NoCounts == [hit |-> 0, miss |-> 0, eviction |-> 0]

Cache == [sets |-> sets, tick |-> tick, counts |-> counts]

(* One line of the trace.  A line that does not begin with a space is      *)
(* skipped.  A line that sscanf cannot read ("?") leaves type and addr as  *)
(* they were, and is an access all the same.                               *)
Entry(type, addr) ==
  LET now  == IF type = "?" THEN scanned ELSE [type |-> type, addr |-> addr]
      once == Access(Cache, now.addr)
      c    == IF now.type = "M" THEN Access(once, now.addr) ELSE once
  IN IF type = "I" THEN UNCHANGED simVars
     ELSE /\ scanned' = now
          /\ sets' = c.sets /\ tick' = c.tick /\ counts' = c.counts
          /\ UNCHANGED params

(* init_cache, and the locals of run: type and addr hold anything. *)
Start(p, opts) == /\ params = [s |-> p.s, lines |-> p.lines, b |-> p.b,
                               err |-> ParseErr(opts)]
                  /\ sets = EmptyCache(p)
                  /\ tick = 0
                  /\ counts = NoCounts

SimInit == \E p \in Configs, opts \in {Required, Required \cup {"h"}} :
             /\ Start(p, opts)
             /\ scanned \in [type: {"L", "M"}, addr: {Min(Addrs)}]

(* With an error main prints the help text and reads nothing. *)
SimNext == /\ params.err = 0
           /\ tick < MaxTick
           /\ \E type \in {"I", "L", "S", "M", "?"}, addr \in Addrs :
                Entry(type, addr)

-----------------------------------------------------------------------------
(* The lines of a set as the list of LRU: by falling time stamp. *)

BlockOf(k, tag) == (2 * tag + k * 2 ^ params.b) \div 2 ^ params.b

Stack(k) ==
  LET held == {sets[k][i] : i \in {i \in DOMAIN sets[k] : sets[k][i].tag >= 0}}
      byAge == SetToSortSeq(held, LAMBDA x, y : x.ts > y.ts)
  IN [n \in 1 .. Len(byAge) |-> BlockOf(k, byAge[n].tag)]

Reference == INSTANCE LRU WITH
  geometry <- [sets |-> SetSize, ways |-> params.lines],
  used     <- scanned.addr \div 2 ^ params.b,
  stacks   <- [k \in 0 .. SetSize - 1 |-> Stack(k)],
  tally    <- counts

(* Whatever order the places of a set are filled and overwritten in, the   *)
(* hits, misses and evictions printed are those of least recently used     *)
(* replacement, and so is what each set holds after every line.            *)
ImplementsLRU == Reference!Spec
=============================================================================
