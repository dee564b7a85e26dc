--------------------------- MODULE GenetCoalesce ----------------------------
(* Receive interrupt coalescing in the Linux driver (bcmgenet.c): the values  *)
(* the user sets with ethtool, the profiles that dynamic interrupt moderation *)
(* (DIM) picks, and the two registers of each ring both write, a packet       *)
(* threshold and a timeout.  ethtool runs under RTNL, as open and close do;   *)
(* bcmgenet_rx_poll and the work item bcmgenet_dim_work run beside it and     *)
(* share no lock with it.                                                     *)
EXTENDS Integers

CONSTANTS
    Rings,          \* the receive rings, 0 .. rx_queues
    Usecs, Pkts,    \* what the user asks for, legal or not
    TxPkts,         \* the same for the transmit rings
    Profiles,       \* DIM's profiles, [usecs, pkts]
    DefProfile      \* the one net_dim_get_def_rx_moderation returns

VARIABLES
    running,        \* netif_running
    user,           \* rx_coalesce_usecs and rx_max_coalesced_frames
    use_dim,
    hw,             \* DMA_MBUF_DONE_THRESH and DMA_RING0_TIMEOUT of each ring
    state,          \* dim->state: "measure" or "apply" (DIM_APPLY_NEW_PROFILE)
    dim_work,       \* "idle", "queued" or "half" done
    profile,        \* dim->profile_ix
    poll,           \* 1: rx_poll has found use_dim set
    tx,             \* DMA_MBUF_DONE_THRESH of the transmit rings
    op,             \* the bcmgenet_set_coalesce that runs
    late,           \* 1: moderation was under way when the user's values were set
    cancelled       \* 1: close has cancelled a queued dim_work

coalesce_vars == <<running, user, use_dim, hw, state, dim_work, profile, poll, tx, op, late,
                   cancelled>>

DMA_INTR_THRESHOLD_MASK == 511
DMA_TIMEOUT_MASK == 65535

Idle == [at |-> "idle"]
LastRing == CHOOSE r \in Rings : \A s \in Rings : s <= r

\* Rings are counted from 0 on; net_dim's profiles have a threshold and a timeout,
\* which fit their registers.
ASSUME CoalesceAssumption ==
    /\ LastRing \in Nat /\ Rings = 0 .. LastRing
    /\ Usecs \subseteq Nat /\ Pkts \subseteq Nat /\ TxPkts \subseteq Nat
    /\ DefProfile \in Profiles
    /\ Profiles \subseteq [usecs : 1 .. DMA_TIMEOUT_MASK * 8 + 1,
                           pkts : 1 .. DMA_INTR_THRESHOLD_MASK]

Values == [usecs : Usecs, pkts : Pkts] \cup Profiles \cup {[usecs |-> 0, pkts |-> 1]}

(* The registers hold what fits in them: DMA_TIMEOUT_MASK is 16 bits, and    *)
(* the limit bcmgenet_set_coalesce puts on the user's value keeps the         *)
(* rounded-up timeout below it.                                               *)
CoalesceTypeOK ==
    /\ running \in 0 .. 1
    /\ user \in [Rings -> Values]
    /\ use_dim \in [Rings -> 0 .. 1]
    /\ hw \in [Rings -> [pkts : 0 .. DMA_INTR_THRESHOLD_MASK,
                         timeout : 0 .. DMA_TIMEOUT_MASK]]
    /\ state \in [Rings -> {"measure", "apply"}]
    /\ dim_work \in [Rings -> {"idle", "queued", "half"}]
    /\ profile \in [Rings -> Profiles]
    /\ poll \in [Rings -> 0 .. 1]
    /\ tx \in 1 .. DMA_INTR_THRESHOLD_MASK
    /\ late \in [Rings -> 0 .. 1] /\ cancelled \in [Rings -> 0 .. 1]

-----------------------------------------------------------------------------
\* bcmgenet_set_rx_coalesce: DIV_ROUND_UP(usecs * 1000, 8192)
Timeout(usecs) == (usecs * 1000 + 8191) \div 8192

\* bcmgenet_get_coalesce
Reported(timeout) == (timeout * 8192) \div 1000

M_Valid_NoZero(ec) ==
    /\ ec.tx <= DMA_INTR_THRESHOLD_MASK /\ ec.tx # 0
    /\ ec.pkts <= DMA_INTR_THRESHOLD_MASK
    /\ ec.usecs <= DMA_TIMEOUT_MASK * 8 + 1
Valid(ec) ==
    /\ ec.tx <= DMA_INTR_THRESHOLD_MASK /\ ec.tx # 0
    /\ ec.pkts <= DMA_INTR_THRESHOLD_MASK
    /\ ec.usecs <= DMA_TIMEOUT_MASK * 8 + 1
    /\ ec.usecs # 0 \/ ec.pkts # 0

\* bcmgenet_init_rx_coalesce
AtOpen(r) == IF use_dim[r] = 1 THEN DefProfile ELSE user[r]

\* bcmgenet_set_ring_rx_coalesce, which moves a ring that starts to adapt to
\* the default profile
AtSet(r, ec) == IF ec.adaptive = 1 /\ use_dim[r] = 0 THEN DefProfile
                ELSE [usecs |-> ec.usecs, pkts |-> ec.pkts]

Programmed(v) == [pkts |-> v.pkts, timeout |-> Timeout(v.usecs)]

\* bcmgenet_probe and the first bcmgenet_open
CoalesceInit ==
    /\ running = 1
    /\ user = [r \in Rings |-> [usecs |-> 0, pkts |-> 1]]
    /\ use_dim = [r \in Rings |-> 0]
    /\ hw = [r \in Rings |-> Programmed([usecs |-> 0, pkts |-> 1])]
    /\ state = [r \in Rings |-> "measure"]
    /\ dim_work = [r \in Rings |-> "idle"]
    /\ profile = [r \in Rings |-> DefProfile]
    /\ poll = [r \in Rings |-> 0]
    /\ tx = 1 /\ op = Idle
    /\ late = [r \in Rings |-> 0] /\ cancelled = [r \in Rings |-> 0]
-----------------------------------------------------------------------------
(* ethtool, open and close.                                                  *)

\* bcmgenet_set_coalesce: what it refuses changes nothing.
SetCoalesce ==
    /\ op = Idle
    /\ \E ec \in [usecs : Usecs, pkts : Pkts, tx : TxPkts, adaptive : 0 .. 1] :
        /\ Valid(ec)
        /\ tx' = ec.tx
        /\ op' = [at |-> "store", ring |-> 0, ec |-> ec]
    /\ UNCHANGED <<running, user, use_dim, hw, state, dim_work, profile, poll, late, cancelled>>

\* bcmgenet_set_ring_rx_coalesce
SetStore ==
    /\ op.at = "store"
    /\ LET r == op.ring  ec == op.ec
       IN /\ user' = [user EXCEPT ![r] = [usecs |-> ec.usecs, pkts |-> ec.pkts]]
          /\ use_dim' = [use_dim EXCEPT ![r] = ec.adaptive]
          /\ late' = [late EXCEPT ![r] = IF dim_work[r] # "idle" \/ poll[r] = 1 THEN 1 ELSE 0]
          /\ op' = [at |-> "thresh", ring |-> r, ec |-> ec, v |-> AtSet(r, ec)]
    /\ UNCHANGED <<tx, running, hw, state, dim_work, profile, poll, cancelled>>

\* bcmgenet_set_rx_coalesce, called by bcmgenet_set_ring_rx_coalesce
SetThresh ==
    /\ op.at = "thresh"
    /\ hw' = [hw EXCEPT ![op.ring].pkts = op.v.pkts]
    /\ op' = [op EXCEPT !.at = "timeout"]
    /\ UNCHANGED <<tx, running, user, use_dim, state, dim_work, profile, poll, late, cancelled>>

SetTimeout ==
    /\ op.at = "timeout"
    /\ hw' = [hw EXCEPT ![op.ring].timeout = Timeout(op.v.usecs)]
    /\ op' = IF op.ring = LastRing THEN Idle
             ELSE [at |-> "store", ring |-> op.ring + 1, ec |-> op.ec]
    /\ UNCHANGED <<tx, running, user, use_dim, state, dim_work, profile, poll, late, cancelled>>

\* bcmgenet_disable_rx_napi: napi_disable waits for rx_poll, cancel_work_sync
\* for a running work item, and drops a queued one.
Close ==
    /\ op = Idle /\ running = 1
    /\ \A r \in Rings : poll[r] = 0 /\ dim_work[r] # "half"
    /\ running' = 0
    /\ dim_work' = [r \in Rings |-> "idle"]
    /\ cancelled' = [r \in Rings |-> IF dim_work[r] = "queued" THEN 1 ELSE cancelled[r]]
    /\ UNCHANGED <<tx, user, use_dim, hw, state, profile, poll, op, late>>

\* bcmgenet_init_dim leaves dim->state alone.
Open ==
    /\ op = Idle /\ running = 0
    /\ running' = 1
    /\ hw' = [r \in Rings |-> Programmed(AtOpen(r))] /\ tx' = 1
    /\ late' = [r \in Rings |-> 0]
    /\ UNCHANGED <<user, use_dim, state, dim_work, profile, poll, op, cancelled>>
-----------------------------------------------------------------------------
(* Dynamic interrupt moderation.                                             *)

\* bcmgenet_rx_poll tests use_dim ...
Poll(r) ==
    /\ running = 1 /\ poll[r] = 0 /\ use_dim[r] = 1
    /\ poll' = [poll EXCEPT ![r] = 1]
    /\ UNCHANGED <<tx, running, user, use_dim, hw, state, dim_work, profile, op, late, cancelled>>

\* ... and net_dim, which does nothing while a profile is to be applied, keeps
\* the profile or picks another and queues the work item.
NetDim(r) ==
    /\ poll[r] = 1
    /\ poll' = [poll EXCEPT ![r] = 0]
    /\ \/ UNCHANGED <<state, dim_work, profile>>
       \/ /\ state[r] = "measure"
          /\ \E p \in Profiles : profile' = [profile EXCEPT ![r] = p]
          /\ state' = [state EXCEPT ![r] = "apply"]
          /\ dim_work' = [dim_work EXCEPT ![r] = "queued"]

PollDim(r) ==
    /\ NetDim(r)
    /\ UNCHANGED <<tx, running, user, use_dim, hw, op, late, cancelled>>

\* bcmgenet_dim_work, which does not look at use_dim
DimWork(r) ==
    /\ dim_work[r] = "queued"
    /\ hw' = [hw EXCEPT ![r].pkts = profile[r].pkts]
    /\ dim_work' = [dim_work EXCEPT ![r] = "half"]
    /\ UNCHANGED <<tx, running, user, use_dim, state, profile, poll, op, late, cancelled>>

DimWorkEnds(r) ==
    /\ dim_work[r] = "half"
    /\ hw' = [hw EXCEPT ![r].timeout = Timeout(profile[r].usecs)]
    /\ dim_work' = [dim_work EXCEPT ![r] = "idle"]
    /\ state' = [state EXCEPT ![r] = "measure"]
    /\ UNCHANGED <<tx, running, user, use_dim, profile, poll, op, late, cancelled>>

CoalesceNext ==
    \/ SetCoalesce \/ SetStore \/ SetThresh \/ SetTimeout \/ Close \/ Open
    \/ \E r \in Rings : Poll(r) \/ PollDim(r) \/ DimWork(r) \/ DimWorkEnds(r)

CoalesceSpec == CoalesceInit /\ [][CoalesceNext]_coalesce_vars
-----------------------------------------------------------------------------
\* Nothing is half way through writing ring r's registers.
Settled(r) == dim_work[r] # "half" /\ (op = Idle \/ op.ring # r \/ op.at = "store")

(* However the register writes of ethtool and of bcmgenet_dim_work fall       *)
(* between each other, they never leave a ring with neither a threshold nor   *)
(* a timeout, with which no receive interrupt would come: the check in        *)
(* bcmgenet_set_coalesce holds for every mixture, not for each writer alone.  *)
SomeInterrupt ==
    \A r \in Rings : Settled(r) => hw[r].pkts # 0 \/ hw[r].timeout # 0

(* A ring that is set to fixed values has them in its registers, through      *)
(* every later close and open (bcmgenet_init_rx_coalesce), until it is set    *)
(* again.  The exception is a ring set while moderation was under way:        *)
(* bcmgenet_dim_work does not look at use_dim and may overwrite either        *)
(* register once more, with a profile's value and no other.                   *)
UserInForce ==
    \A r \in Rings :
        Settled(r) /\ running = 1 /\ use_dim[r] = 0 =>
            /\ late[r] = 0 => hw[r] = Programmed(user[r])
            /\ hw[r].pkts \in {v.pkts : v \in {user[r]} \cup Profiles}
            /\ hw[r].timeout \in {Timeout(v.usecs) : v \in {user[r]} \cup Profiles}

(* The value bcmgenet_get_coalesce reports, set again, programs the same      *)
(* timeout: rounding up in one direction and down in the other never drifts.  *)
ReadBackStable ==
    \A r \in Rings : Timeout(Reported(hw[r].timeout)) = hw[r].timeout

(* Moderation waits for its work item (dim->state is DIM_APPLY_NEW_PROFILE)   *)
(* exactly while the item is queued or runs, so that it goes on adapting,     *)
(* unless bcmgenet_disable_rx_napi has ever cancelled a queued item of the    *)
(* ring: nothing resets dim->state then, and it never adapts again.           *)
KeepsAdapting ==
    \A r \in Rings :
        state[r] = "apply" <=> dim_work[r] # "idle" \/ cancelled[r] = 1

(* However ethtool and bcmgenet_dim_work interleave, interrupt moderation     *)
(* never turns interrupts off and reports what it was set to; it keeps the    *)
(* user's values but for a profile that was being applied when they were set, *)
(* and goes on adapting but for a ring closed with a profile to apply.        *)
ModerationSafe ==
    CoalesceTypeOK /\ SomeInterrupt /\ UserInForce /\ ReadBackStable /\ KeepsAdapting
=============================================================================
