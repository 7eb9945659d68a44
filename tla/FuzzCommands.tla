---------------------------- MODULE FuzzCommands ----------------------------
(***************************************************************************)
(* What CommandHandler::HandleCommand does with each kind of command: the  *)
(* kernel entries it calls, in order.  The protobuf messages are left out, *)
(* and so is how their fields become arguments; what is kept of the        *)
(* arguments is which of them are user addresses:                          *)
(*                                                                         *)
(*   "one"    address 1, for which copyin supplies fuzzed bytes,           *)
(*   "real"   a buffer of the handler,                                     *)
(*   "zero"   no address,                                                  *)
(*   "input"  a number taken from the command as it is.                    *)
(***************************************************************************)
EXTENDS Naturals, Sequences, TLC

Call(entry, addresses) == [entry |-> entry, addresses |-> addresses]

(* The commands with a handler of their own.  An address of mach_msg2 is   *)
(* 0 when the command has no message.                                      *)
HandleMachMsg2 == Call("mach_msg2", {"zero", "real"})

HandleMachPortAllocate == Call("mach_port_allocate", {"real"})

HandleMachPortDeallocate == Call("mach_port_deallocate", {})

HandleTaskSelfTrap == Call("task_self", {})

(* The virtual memory and port traps.                                      *)
MemoryCommands ==
    [MachVmAllocateTrap |-> <<Call("mach_vm_allocate", {"one"})>>,
     MachVmPurgableControl |-> <<Call("mach_vm_purgable_control", {"one"})>>,
     MachVmDeallocateTrap |-> <<Call("mach_vm_deallocate", {})>>,
     TaskDyldProcessInfoNotifyGet |->
        <<Call("task_dyld_process_info_notify_get", {"one"})>>,
     MachVmProtectTrap |-> <<Call("mach_vm_protect", {})>>,
     MachVmMapTrap |-> <<Call("mach_vm_map", {"one"})>>,
     MachPortAllocate |-> <<HandleMachPortAllocate>>,
     MachPortDeallocate |-> <<HandleMachPortDeallocate>>,
     MachPortModRefs |-> <<Call("mach_port_mod_refs", {})>>,
     MachPortMoveMember |-> <<Call("mach_port_move_member", {})>>,
     MachPortInsertRight |-> <<Call("mach_port_insert_right", {})>>,
     MachPortInsertMember |-> <<Call("mach_port_insert_member", {})>>,
     MachPortExtractMember |-> <<Call("mach_port_extract_member", {})>>]

(* The traps that make ports, timers and vouchers, and the messages.       *)
(* MachMsg is disabled: its case starts with a break.                      *)
PortCommands ==
    [MachPortConstruct |-> <<Call("task_self", {}),
                             Call("mach_port_construct", {"real"})>>,
     MachPortDestruct |-> <<Call("mach_port_destruct", {})>>,
     MachReplyPort |-> <<Call("mach_reply_port", {})>>,
     MachPortRequestNotificationTrap |->
        <<Call("task_self", {}),
          Call("mach_port_request_notification", {"real"})>>,
     ThreadSelf |-> <<Call("thread_self", {})>>,
     TaskSelf |-> <<HandleTaskSelfTrap>>,
     HostSelf |-> <<Call("host_self", {})>>,
     MachMsg |-> <<>>,
     MachMsgOverwrite |->
        <<Call("mach_msg_overwrite", {"one", "real", "input"})>>,
     MachMsg2Trap |-> <<HandleMachMsg2>>]

VoucherAndTimerCommands ==
    [HostCreateMachVoucherTrap |->
        <<Call("host_create_mach_voucher", {"real", "one"})>>,
     MachVoucherExtractAttrRecipeTrap |->
        <<Call("mach_voucher_extract_attr_recipe", {"real"})>>,
     ThreadGetSpecialReplyPort |->
        <<Call("thread_get_special_reply_port", {})>>,
     MkTimerCreateTrap |-> <<Call("mk_timer_create", {})>>,
     MkTimerDestroyTrap |-> <<Call("mk_timer_destroy", {})>>,
     MkTimerCancelTrap |-> <<Call("mk_timer_cancel", {"zero"})>>,
     MkTimerArmTrap |-> <<Call("mk_timer_arm", {})>>,
     MkTimerArmLeewayTrap |-> <<Call("mk_timer_arm_leeway", {})>>]

(* The calls made under BlockCopyin: their arguments are raw input, or     *)
(* address 1 where the kernel expects a nested structure.                  *)
RawCommands ==
    [ArbBsdSyscall |-> <<Call("sysent", {"input"})>>,
     ArbMachTrap |-> <<Call("mach_trap_table", {"zero"})>>,
     Ioctl |-> <<Call("ioctl", {"one"})>>]

(* The network calls.  IoctlReal has no break and goes on into Connectx.   *)
NetworkCommands ==
    [IpInput |-> <<Call("ip_input", {})>>,
     IoctlReal |-> <<Call("ioctl", {"real"}),
                     Call("connectx", {"real", "zero"})>>,
     Connectx |-> <<Call("connectx", {"real", "zero"})>>,
     Disconnectx |-> <<Call("disconnectx", {})>>]

(* The other BSD calls, faults and MIG messages.                           *)
OtherCommands ==
    [NecpClientAction |-> <<Call("necp_client_action", {"real"})>>,
     NecpSessionAction |-> <<Call("necp_session_action", {"real"})>>,
     MigRoutineMachMsg |-> <<Call("mach_msg", {"real", "input"})>>,
     Kevent |-> <<Call("kevent", {"real", "zero"})>>,
     ProcessorException |-> <<Call("vm_fault", {})>>,
     Syscall |-> <<Call("generated", {"real"})>>]

NoCommand == [CommandNotSet |-> <<>>]

HandleCommand == MemoryCommands @@ PortCommands @@ VoucherAndTimerCommands
                 @@ RawCommands @@ NetworkCommands @@ OtherCommands
                 @@ NoCommand

(* The system calls that XNUDoRandomSyscall refuses: nosys, exit, fork,    *)
(* ptrace, posix_spawn, semsys, semget, lio_listio and pselect.            *)
BannedSyscalls == {0, 1, 2, 26, 244, 251, 255, 320, 394}

(* A refused one returns before BlockCopyin.                               *)
XNUDoRandomSyscall(number) ==
    IF number \in BannedSyscalls THEN "plain" ELSE "raw"

(* How a command differs for the thread that handles it: "raw" ones run    *)
(* under BlockCopyin, "none" is not followed by a Yield.                   *)
ShapesOf(c) == IF c = "ArbBsdSyscall"
               THEN {XNUDoRandomSyscall(n) : n \in 0..400}
               ELSE IF c \in DOMAIN RawCommands THEN {"raw"}
               ELSE IF c \in DOMAIN NoCommand THEN {"none"} ELSE {"plain"}

Shapes == UNION {ShapesOf(c) : c \in DOMAIN HandleCommand}
-----------------------------------------------------------------------------
(* The Mach traps that osfmk_backend.c has a wrapper for: it fills in the  *)
(* trap's argument structure and calls the trap.                           *)
MemoryWrappers ==
    {"mach_vm_allocate", "mach_vm_purgable_control", "mach_vm_deallocate",
     "task_dyld_process_info_notify_get", "mach_vm_protect", "mach_vm_map"}

PortWrappers ==
    {"mach_port_allocate", "mach_port_deallocate", "mach_port_mod_refs",
     "mach_port_move_member", "mach_port_insert_right",
     "mach_port_insert_member", "mach_port_extract_member",
     "mach_port_construct", "mach_port_destruct", "mach_reply_port",
     "thread_self", "task_self", "host_self"}

MessageWrappers ==
    {"mach_msg", "mach_msg2", "mach_msg_overwrite",
     "host_create_mach_voucher", "mach_voucher_extract_attr_recipe",
     "mach_port_request_notification"}

TimerWrappers ==
    {"thread_get_special_reply_port", "mk_timer_create", "mk_timer_destroy",
     "mk_timer_arm", "mk_timer_cancel", "mk_timer_arm_leeway"}

(* The BSD entries, called directly or through generated wrappers.         *)
BsdEntries == {"sysent", "mach_trap_table", "ioctl", "ip_input", "connectx",
               "disconnectx", "necp_client_action", "necp_session_action",
               "kevent", "vm_fault", "generated"}

Wrappers == MemoryWrappers \union PortWrappers \union MessageWrappers
            \union TimerWrappers

Called == UNION {{HandleCommand[c][i].entry : i \in DOMAIN HandleCommand[c]} :
                    c \in DOMAIN HandleCommand}

(* Every trap with a wrapper is reached by a command, and every call of a  *)
(* command has a wrapper or is a BSD entry.                                *)
ASSUME CommandsCoverWrappers == Called = Wrappers \union BsdEntries
=============================================================================
