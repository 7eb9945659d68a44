---------------------------- MODULE KernelStubs ----------------------------
(***************************************************************************)
(* The functions of XNU that the fuzzing kernel does not take from XNU but *)
(* replaces by a stub, by what the stub does to the rest of the program:   *)
(*                                                                         *)
(*   abort       GetHypercallInterface()->Abort() or panic(): the process  *)
(*               dies when the kernel gets there;                          *)
(*   constant    returns or stores a value that no fuzzed data decides;    *)
(*   byte        draws fuzzed bytes or a fuzzed bool, which are zero when  *)
(*               there is no data provider;                                *)
(*   word        draws a fuzzed integer, from xnu_fdp without a check;     *)
(*   yield       gives the other threads a chance to run;                  *)
(*   interrupts  changes whether Yield() may switch threads;               *)
(*   copy        is copyin or copyout under another name;                  *)
(*   wait        asserts an uninterruptible wait and blocks;               *)
(*   lock        takes or drops a lock without waiting for it;             *)
(*   page        hands out the next physical page, or the page array.      *)
(*                                                                         *)
(* One table per stretch of a source file.                                 *)
(***************************************************************************)
EXTENDS Sequences

(* osfmk_stubs.c, lines 91 to 235.                                         *)
OsfmkStubs1 ==
    [abort |-> {
        "IORecordProgressBackbuffer", "MD5Final", "MD5Init", "MD5Update",
        "OSKextGetAllocationSiteForCaller", "OSKextGetKmodIDForSite",
        "OSKextSetReceiptQueried", "SavePanicInfo", "WKdm_compress_new",
        "WKdm_decompress_new", "_NSConcreteStackBlock", "_disable_preemption",
        "abort_panic_transfer", "allow_data_exec", "allow_stack_exec",
        "arcade_upcall", "bcopy_phys", "begin_panic_transfer",
        "coalition_notification", "commpage_set_memory_pressure",
        "commpage_update_active_cpus", "consider_machine_adjust",
        "consider_machine_collect", "copyout_atomic64"},
     constant |-> {"IOTaskHasEntitlement", "Idle_PTs_release", "OSBacktrace",
        "OSKextRemoveKextBootstrap", "_Block_object_dispose",
        "cc_rand_generate", "commpage_populate", "commpage_text_populate",
        "commpage_update_mach_approximate_time", "counter_add",
        "counter_inc", "counter_inc_preemption_disabled"},
     byte |-> {"IODTGetLoaderInfo"},
     yield |-> {"IOSleep"},
     interrupts |-> {"_enable_preemption"},
     copy |-> {"copyinmsg", "copyout_atomic32", "copyoutmsg"}]

(* osfmk_stubs.c, lines 237 to 383.                                        *)
OsfmkStubs2 ==
    [abort |-> {
        "cpu_can_exit", "cpu_control", "cpu_info", "cpu_start", "debug_task",
        "device_close", "device_data_action", "exception_raise_state",
        "exception_raise_state_identity", "fairplayd_arcade_request",
        "gIOHibernateMode", "gLoadedKextSummaries", "hibernate_page_bitset",
        "hibernate_page_bittst", "hibernate_page_list_allocate",
        "hibernate_page_list_setall_machine", "hibernate_processor_setup",
        "hibernate_should_abort", "hibernate_vm_locks_are_safe",
        "inuse_ptepages_count", "io_map_spec", "iokit_add_reference",
        "iokit_port_object_description", "iokit_remove_reference",
        "iokit_task_app_suspended_changed", "kasan_notify_address_nopoison",
        "kdp_has_polled_corefile", "kdp_polled_corefile_error",
        "kdp_raise_exception", "kdp_vtophys", "kern_dump",
        "kernel_preempt_check", "kheap_temp_leak_panic", "kmod_panic_dump"},
     constant |-> {"cpu_info_count", "current_percpu_base", "early_random",
        "exception_raise", "fillPage", "halt_all_cpus",
        "iokit_task_terminate", "counter_dec", "kasan_fakestack_drop",
        "kasan_fakestack_gc", "kasan_init_thread", "kasan_late_init",
        "kasan_notify_address", "kasan_unpoison_stack", "kernel_do_post",
        "kernel_list_tests"},
     byte |-> {"get_user_regs"},
     word |-> {"kpc_configurable_config_count"}]

(* osfmk_stubs.c, lines 385 to 529.                                        *)
OsfmkStubs3 ==
    [abort |-> {
        "kpc_get_rawpmu_config", "kpc_set_config_arch", "kperf_debug_level",
        "kperf_kdebug_active", "kperf_kdebug_handler", "kperf_kpc_thread_ast",
        "kperf_lazy_cpu_action", "kperf_on_cpu_active", "kperf_sample",
        "kperf_status", "kptimer_running_setup", "ktest_assertion_check",
        "kvtophys", "log_putc", "lz4_decode_asm", "mach_exception_raise",
        "mach_exception_raise_state", "mach_exception_raise_state_identity",
        "machine_callstack"},
     constant |-> {"kpc_configurable_count", "kpc_get_fixed_counters",
        "kpc_set_period_arch", "kpc_set_running_arch", "kperf_init",
        "kperf_init_early", "kperf_lazy_make_runnable", "kperf_lazy_off_cpu",
        "kperf_on_cpu_internal", "kdp_init"},
     byte |-> {"kpc_is_running_configurable", "kpc_is_running_fixed"},
     word |-> {
        "kpc_configurable_max", "kpc_fixed_config_count", "kpc_fixed_count",
        "kpc_fixed_max", "kpc_get_all_cpus_counters",
        "kpc_get_configurable_config", "kpc_get_configurable_counters",
        "kpc_get_fixed_config", "kpc_rawpmu_config_count"}]

(* osfmk_stubs.c, lines 530 to 676.                                        *)
OsfmkStubs4 ==
    [abort |-> {
        "machine_choose_processor", "machine_idle", "machine_load_context",
        "machine_max_runnable_latency", "machine_signal_idle",
        "machine_signal_idle_deferred", "machine_stack_detach",
        "machine_tecs", "machine_timeout_suspended", "machine_trace_thread",
        "machine_trace_thread64", "machine_track_platform_idle",
        "machine_work_interval_notify", "memset_word", "ml_affinity_to_pset",
        "ml_at_interrupt_context", "ml_cpu_begin_state_transition",
        "ml_cpu_end_state_transition", "ml_delay_on_yield", "ml_energy_stat",
        "ml_gpu_stat_update", "ml_nofault_copy", "ml_panic_trap_to_debugger"},
     constant |-> {"machine_csv", "machine_init", "machine_lockdown",
        "machine_stack_handoff", "machine_switch_perfcontrol_context",
        "machine_switch_perfcontrol_state_update", "machine_task_get_state",
        "machine_task_init", "machine_task_set_state",
        "machine_task_terminate", "ml_cpu_get_info",
        "ml_get_booter_memory_size", "ml_get_interrupts_enabled",
        "ml_get_max_affinity_sets", "ml_get_timebase",
        "ml_get_vm_reserved_regions", "ml_gpu_stat"},
     byte |-> {"ml_get_power_state"},
     interrupts |-> {"ml_set_interrupts_enabled"}]

(* osfmk_stubs.c, lines 678 to 824.                                        *)
OsfmkStubs5 ==
    [abort |-> {
        "ml_static_ptovirt", "ml_validate_nofault", "mp_interrupt_watchdog",
        "mp_kdp_enter", "mp_kdp_exit", "mp_rendezvous_lock",
        "mp_rendezvous_unlock", "msgbufp", "no_shared_cr3",
        "pal_hib_rebuild_pmap_structs", "pal_hib_teardown_pmap_structs",
        "panic_include_ztrace", "panic_print_symbol_name", "paniclog_flush",
        "pcid_for_pmap_cpu_tuple", "physmap_base", "physmap_max",
        "plctrace_disable", "plctrace_enabled", "pmCPUHalt", "pmSafeMode",
        "mapping_set_mod", "pmap_adjust_unnest_parameters",
        "pmap_asserts_enabled", "pmap_asserts_traced",
        "pmap_cache_attributes", "pmap_cs_allow_invalid",
        "pmap_dump_page_tables", "pmap_get_refmod"},
     constant |-> {"ml_wait_max_cpus", "nanoseconds_to_absolutetime",
        "nanotime_to_absolutetime", "pmap_supported_feature",
        "pmap_advise_pagezero_range", "pmap_change_wiring",
        "pmap_clear_modify", "pmap_clear_reference", "pmap_clear_refmod",
        "pmap_clear_refmod_options", "pmap_clear_refmod_range_options",
        "pmap_commpage_size_min", "pmap_copy_page", "pmap_copy_part_page",
        "pmap_disable_NX", "pmap_disconnect", "pmap_disconnect_options",
        "pmap_enter", "pmap_flush", "pmap_flush_context_init",
        "pmap_has_prot_policy", "pmap_hi_pages_done"},
     byte |-> {"pmap_get_jit_entitled", "pmap_get_vm_map_cs_enforced",
        "pmap_is_modified", "pmap_is_referenced"}]

(* osfmk_stubs.c, lines 825 to 970.                                        *)
OsfmkStubs6 ==
    [abort |-> {
        "pmap_ledger_alloc", "pmap_ledger_alloc_init", "pmap_ledger_free",
        "pmap_map_compressor_page", "pmap_nesting_size_max",
        "pmap_page_protect", "pmap_pcid_activate", "pmap_pcid_ncpus",
        "pmap_query_resident", "pmap_set_noencrypt",
        "pmap_shared_region_size_min", "pmap_sync_page_attributes_phys",
        "pmap_sync_page_data_phys", "pmap_test_text_corruption", "pmap_trim",
        "pmap_unmap_compressor_page", "pmap_unnest", "random_bool_gen_bits",
        "secure_memset", "send_cpu_usage_violation",
        "send_cpu_wakes_violation", "send_disk_writes_violation",
        "send_ktrace_background_available",
        "send_sysdiagnose_notification_with_audit_token",
        "serial_console_enabled", "serial_getc", "serial_putc",
        "slave_machine_init", "cpu_subtype", "get_eflags_exportmask",
        "write_random", "cpu_signal_handler", "handle_pending_TLB_flushes",
        "NMIPI_panic"},
     constant |-> {"pmap_list_resident_pages", "pmap_lock_phys_page",
        "pmap_map_block_addr", "pmap_nest", "pmap_page_protect_options",
        "pmap_pageable", "pmap_pre_expand", "pmap_protect_options",
        "pmap_query_page_info", "pmap_remove", "pmap_require",
        "pmap_set_cache_attributes", "pmap_set_jit_entitled",
        "pmap_set_process", "pmap_set_vm_map_cs_enforced",
        "pmap_unlock_phys_page", "pmap_unnest_options", "random_bool_init",
        "slot_type", "slot_subtype", "current_xstate", "ml_fp_setvalid"}]

(* osfmk_stubs.c, lines 971 to 1116.                                       *)
OsfmkStubs7 ==
    [abort |-> {"telemetry_notification", "top_ztrace", "trace_backtrace",
        "track_this_zone", "uext_server", "version", "version_major",
        "version_minor", "xts_decrypt", "xts_encrypt", "xts_start",
        "zlib_deflate_memory_size", "default_pager_memory_object_create",
        "do_mach_notify_dead_name", "do_mach_notify_no_senders",
        "do_mach_notify_port_deleted", "do_mach_notify_port_destroyed",
        "do_mach_notify_send_once", "mach_vm_region_info",
        "mach_vm_region_info_64", "vm_mapped_pages_info", "cpu_exit_wait",
        "cpu_sleep", "hibernate_vm_lock", "hibernate_vm_unlock",
        "ml_cpu_can_exit"},
     constant |-> {
        "slot_threadtype", "thread_tell_urgency", "trust_cache_init",
        "vmx_hv_support", "zpercpu_count", "host_get_UNDServer",
        "host_set_UNDServer", "kext_request", "mach_memory_info",
        "mach_zone_force_gc", "mach_zone_get_btlog_records",
        "mach_zone_get_zlog_zones", "mach_zone_info",
        "mach_zone_info_for_largest_zone", "mach_zone_info_for_zone",
        "task_zone_info", "commpage_update_atm_diagnostic_config",
        "init_ast_check"},
     lock |-> {"hw_lock_byte_lock", "hw_lock_byte_unlock"}]

(* osfmk_stubs.c, lines 1118 to 1264.                                      *)
OsfmkStubs8 ==
    [abort |-> {"ml_cpu_down", "ml_cpu_up", "panic_notify", "phyreadpanic",
        "phywritepanic", "pmap_verify_noncacheable", "reportphyreaddelayabs",
        "reportphywritedelayabs", "machine_thread_pc",
        "machine_thread_reset_pc", "machine_thread_set_tsd_base",
        "machine_thread_state_initialize", "IOPMRootDomainGetWillShutdown",
        "IOSetImageBoot", "OSKextGetRefGrpForCaller", "_storage_lock",
        "_storage_unlock", "aes_encrypt_key_gcm", "aes_encrypt_set_iv_gcm",
        "create_buffers", "delete_buffers", "disable_wrap",
        "host_security_create_task_token", "host_security_set_task_token",
        "hvg_hcall_set_coredump_data", "is_iokit_subsystem",
        "kdbg_cpu_count", "kdbg_debug", "kdebug_lck_grp", "kdebug_timestamp",
        "kernel_data_map_get", "kernel_debug_read", "kernel_debug_write"},
     constant |-> {
        "machine_thread_going_off_core", "machine_thread_going_on_core",
        "machine_thread_inherit_taskwide",
        "machine_thread_set_insn_copy_optout", "machine_thread_set_state",
        "machine_thread_state_convert_to_user",
        "machine_thread_switch_addrmode", "machine_thread_template_init",
        "IOCurrentTaskHasEntitlement", "core_analytics_send_event_lazy",
        "core_analytics_family_match", "create_buffers_triage",
        "kdebug_lck_init"},
     byte |-> {"machine_thread_get_state"}]

(* osfmk_stubs.c, lines 1265 to 1412.                                      *)
OsfmkStubs9 ==
    [abort |-> {"kernel_triage_extract", "lck_spinlock_timeout_hit",
        "log_queue_cnt_dropped_nomem", "log_queue_cnt_dropped_off",
        "log_queue_cnt_mem_allocated", "log_queue_cnt_mem_failed",
        "log_queue_cnt_mem_released", "log_queue_cnt_queued",
        "log_queue_cnt_received", "log_queue_cnt_rejected_fh",
        "log_queue_cnt_sent", "mach_exception_raise_identity_protected",
        "ml_get_cpu_number_type", "pmap_ledger_verify_size",
        "ptrauth_utils_auth_blob_generic", "ptrauth_utils_sign_blob_generic",
        "read_lbr", "send_vfs_resolve_dir", "send_vfs_resolve_file",
        "serial_putc_options", "uuid_unparse_lower", "zone_invalid_panic",
        "zone_ro_elem_size", "zone_userspace_reboot_checks",
        "workq_schedule_delayed_thread_creation",
        "bsdthread_get_max_parallelism", "_wq_thactive_move",
        "_wq_thactive_refresh_best_constrained_req_qos", "workq_lock_try",
        "_wq_thactive", "workq_lock_is_acquired_kdp", "_wq_thactive_inc",
        "workq_unpark_continue", "_wq_thactive_dec", "__atomic_fetch_add_16",
        "__atomic_fetch_sub_16", "kdp_lck_ticket_is_acquired"},
     constant |-> {"kernel_triage_record", "mach_test_sync_upcall",
        "ml_cpu_get_info_type", "ml_early_cpu_max_number",
        "pmap_cs_fork_prepare", "pmap_in_ppl",
        "machine_thread_siguctx_pointer_convert_to_user"},
     word |-> {"ml_get_cpu_types"}]

(* osfmk_stubs.c, lines 1414 to 1506.                                      *)
OsfmkStubs10 ==
    [abort |-> {
        "kdebug_storage_lock", "kdebug_storage_unlock", "mac_audit_data_zone",
        "IOSKArenaCreate", "IOSKArenaDestroy", "IOSKMapperCreate",
        "IOSKMapperGetAddress", "IOSKMapperDestroy", "IOSKMapperRedirect",
        "IOSKRegionDestroy", "IOSKRegionClearBufferDebug", "IOSKMemoryUnwire",
        "IOSKMemoryDiscard", "IOSKMemoryDestroy", "os_memcmp_mask_64B",
        "os_memcmp_mask_80B", "os_memcmp_mask_48B", "os_cpu_copy_in_cksum",
        "OSKernelStackRemaining", "hw_wait_while_equals32"},
     constant |-> {"flsll", "IOSKRegionCreate", "IOSKMemoryBufferCreate",
        "IOSKMemoryReclaim", "IOSKMemoryWire", "IOSKRegionSetBuffer",
        "IOSKBufferIsWired", "hv_support_init"}]

(* bsd/fakes/stubs.c, lines 59 to 204.                                     *)
BsdStubs1 ==
    [abort |-> {"IOBSDGetPlatformUUID", "IOBaseSystemARVRootHashAvailable",
        "IOCatalogueMatchingDriversPresent", "IOMapperInsertPage",
        "IOPMCopySleepWakeUUIDKey", "IOSecureBSDRoot", "IOSetRecoveryBoot",
        "IOVnodeHasEntitlement"},
     constant |-> {"simple_inet_addr", "IOBSDRegistryEntryForDeviceTree",
        "IOBSDRegistryEntryRelease", "IOBSDRegistryEntryGetData",
        "IOBSDMountChange", "IOGetApfsPrebootUUID",
        "IOGetAssociatedApfsVolgroupUUID", "IOGetBootUUID", "IOKitBSDInit",
        "IOKitInitializeTime", "IORegistrySetOSBuildVersion",
        "IOServicePublishResource", "IOServiceWaitForMatchingResource",
        "IOSystemShutdownNotification"},
     byte |-> {"IOGetVMMPresent"}]

(* bsd/fakes/stubs.c, lines 205 to 350.                                    *)
BsdStubs2 ==
    [abort |-> {"OSKextGetUUIDForName", "OSKextResetAfterUserspaceReboot",
        "PE_imgsrc_mount_supported", "SHA1Final", "SHA1Init", "SHA1Update",
        "SecureDTGetProperty", "_os_log_internal_driverKit",
        "act_thread_catt", "aes_decrypt_aad_gcm", "aes_decrypt_cbc",
        "aes_decrypt_finalize_gcm", "aes_decrypt_gcm",
        "aes_decrypt_get_ctx_size_gcm", "aes_decrypt_key",
        "aes_decrypt_key_gcm", "aes_decrypt_set_iv_gcm",
        "aes_encrypt_aad_gcm", "aes_encrypt_cbc", "aes_encrypt_finalize_gcm",
        "aes_encrypt_gcm", "aes_encrypt_get_ctx_size_gcm",
        "aes_encrypt_inc_iv_gcm", "aes_encrypt_key", "aes_encrypt_key128",
        "aes_encrypt_key_with_iv_gcm", "aes_encrypt_reset_gcm",
        "audit_analytics", "audit_triggers", "bootsessionuuid_string",
        "bzero_phys", "bzero_phys_nc", "check_task_access_with_flavor",
        "commpage_update_dyld_flags", "commpage_update_kdebug_state",
        "copyin_atomic32_wait_if_equals", "copypv", "copysize_limit_panic",
        "coredumpok", "cpuid_extfeatures"},
     constant |-> {"SecureDTLookupEntry", "act_thread_csave", "bsd_do_post",
        "bsd_list_tests", "cpu_type", "cpuid_cpufamily"}]

(* bsd/fakes/stubs.c, lines 352 to 499.                                    *)
BsdStubs3 ==
    [abort |-> {"di_root_image_ext", "di_root_ramfile_buf", "early_boot",
        "find_code_signature", "gPEClockFrequencyInfo", "hashaddr",
        "hashbacktrace", "high_MutexSpin", "kperf_disable_sampling",
        "kperf_reset", "lockd_request", "lockd_shutdown", "log_putc_locked",
        "log_setsize", "logwakeup", "low_MutexSpin",
        "mach_bridge_timer_enable", "mach_gss_accept_sec_context",
        "mach_gss_init_sec_context_v3", "mach_gss_log_error",
        "mach_gss_lookup", "machine_thread_on_core", "max_ncpus",
        "ml_cpu_cache_sharing", "ml_cpu_cache_size"},
     constant |-> {
        "cpuid_info", "di_root_image", "fls", "get_largest_zone_info",
        "get_zone_map_size", "halt_log_enter", "kdp_get_interface",
        "kdp_set_ip_and_mac_addresses", "kdp_set_gateway_mac",
        "kpc_arch_init", "kpc_get_classes", "kpc_set_sw_inc", "log_dmesg",
        "mach_bridge_remote_time",
        "machine_thread_function_pointers_convert_from_user"},
     word |-> {"kpc_get_pmu_version"}]

(* bsd/fakes/stubs.c, lines 500 to 645.                                    *)
BsdStubs4 ==
    [abort |-> {
        "rsa_make_pub", "rsa_verify_pkcs1v15", "nx_enabled", "oslog_setsize",
        "osobject_release", "osobject_retain", "panic_dump_mem",
        "panic_phys_range_before", "registerSleepWakeInterest",
        "send_nspace_resolve_cancel", "send_nspace_resolve_path",
        "startup_serial_num_procs", "test_oslog_handleOSLogCtl",
        "thread_set_parent", "thread_setentrypoint", "thread_setsinglestep",
        "thread_setuserstack", "tsc_at_boot", "tsc_rebase_abs_time",
        "uuid_generate", "uuid_parse", "xnupost_export_testdata",
        "xnupost_get_estimated_testdata_size", "xnupost_reset_all_tests",
        "zdestroy", "zone_gc_drain", "OSReportWithBacktrace",
        "_Block_object_assign", "_NSConcreteGlobalBlock",
        "compute_pmap_gc_throttle", "compute_zone_working_set_size",
        "driverkit_checkin_timed_out", "kperf_timer_expire", "mp_slave_stack"},
     constant |-> {"_get_cpu_capabilities", "panic_hook", "panic_unhook",
        "thread_adjuserstack", "thread_entrypoint", "thread_set_child",
        "iokit_user_client_trap"},
     word |-> {"thread_userstack", "thread_userstackdefault"}]

(* bsd/fakes/stubs.c, lines 646 to 791.                                    *)
BsdStubs5 ==
    [abort |-> {"osbuild_config", "oslog_msgbuf_dropped_charcount",
        "oslog_msgbuf_dropped_msgcount", "oslog_msgbuf_msgcount",
        "osrelease", "ostype", "thread_set_wq_state32",
        "thread_set_wq_state64", "gEnforceQuiesceSafety",
        "iotrace_generators", "iotrace_next", "iotrace_ring",
        "reportphyreadosbt", "reportphywriteosbt", "tracephyreaddelayabs",
        "tracephywritedelayabs", "lck_rw_set_promotion_locked",
        "sysctl_get_bound_cpuid", "sysctl_task_get_no_smt",
        "sysctl_task_set_no_smt", "sysctl_thread_bind_cpuid",
        "OSKextResetPgoCounters", "logclose", "logread", "logioctl",
        "logselect", "logopen", "_kmem_alloc_pageable", "_kmem_alloc",
        "_vm_fault", "bt_params_get_latest",
        "kdp_core_handle_new_encryption_key", "_vm_kernel_addrhash",
        "io_compression_stats", "_kmem_alloc_kobject",
        "vnode_iocs_record_and_free", "clock_alarm_reply"},
     constant |-> {
        "kperf_is_sampling", "other_percpu_base", "OSKextGrabPgoData",
        "OSKextResetPgoCountersLock", "OSKextResetPgoCountersUnlock",
        "pid_hibernate", "debug_syscall_reject", "IOProvideCoreFileAccess",
        "clock_timebase_info"}]

(* bsd/fakes/stubs.c, lines 792 to 938.                                    *)
BsdStubs6 ==
    [abort |-> {"machine_signal_idle_cancel", "send_port_space_violation",
        "send_file_descriptors_violation", "iokit_client_died",
        "iokit_port_for_object", "pmap_map_block",
        "pmap_memory_region_count", "pmap_memory_regions",
        "PE_write_socd_client_buffer", "ml_get_timebase_entropy",
        "sdt_probetab", "sdt_probetab_mask", "dtrace_probe",
        "dtrace_invop_callsite_pre", "dtrace_invop_callsite_post",
        "cpu_core", "cpu_list", "cpuid_get_leaf7_feature_names",
        "cpuid_get_leaf7_extfeature_names", "cpuid_get_extfeature_names",
        "flex_ratio", "flex_ratio_min", "flex_ratio_max", "ucode_interface",
        "panic_restart_timeout", "interrupt_populate_latency_stats",
        "interrupt_reset_latency_stats", "NMI_count", "NMI_cpus",
        "cpuid_vmm_get_applepv_features", "hvg_hcall_trigger_dump",
        "pv_hashed_kern_low_water_mark", "tscFreq", "deep_idle_rebase",
        "pal_rtc_nanotime_info", "is_x2apic",
        "idle_entry_timer_processing_hdeadline_threshold",
        "ml_timer_eager_evaluation_max", "x86_isr_fp_simd_use"},
     constant |-> {
        "PE_init_socd_client", "cpuid_features", "cpuid_get_feature_names",
        "cpuid_vmm_present", "ml_cpu_power_disable", "ml_cpu_power_enable",
        "sys_debug_syscall_reject_config"}]

(* bsd/fakes/stubs.c, lines 940 to 1085.                                   *)
BsdStubs7 ==
    [abort |-> {"hvg_hcall_get_mabs_offset", "hvg_hcall_get_bootsessionuuid",
        "wake_nkdbufs", "trace_wrap", "IOCurrentTaskGetEntitlement",
        "IOVnodeGetEntitlement", "kern_register_userspace_coredump",
        "ktriage_extract", "IOUserServerRecordExitReason",
        "ml_get_cluster_type_name", "IOParseWorkloadConfig",
        "reset_debug_syscall_rejection_mode",
        "IOCurrentTaskHasStringEntitlement", "enable_dklog_serial_output",
        "os_memcmp_mask_16B", "os_memcmp_mask_32B",
        "send_vfs_resolve_dir_with_audit_token",
        "send_vfs_resolve_file_with_audit_token", "ml_io_map_unmappable",
        "current_space_size", "write_trace_on_panic",
        "kdp_polled_corefile_mode", "mach_exception_raise_backtrace",
        "cond_sleep_with_inheritor64_mask", "cond_wakeup_all_with_inheritor",
        "kdp_memcpy", "kdp_strlcpy", "kdp_generic_copyin", "kdp_find_phys",
        "kdp_generic_copyin_word", "kdp_generic_copyin_string",
        "kdp_vm_map_get_page_size", "ml_cpu_down_update_counts"},
     constant |-> {
        "machine_task_process_signature", "record_system_event_no_varargs",
        "ktriage_record"}]

(* bsd/fakes/stubs.c, lines 1087 to 1231.                                  *)
BsdStubs8 ==
    [abort |-> {"gEnforcePlatformActionSafety", "oslogopen", "oslogclose",
        "oslogioctl", "oslogselect", "pmap_query_page_info_retries",
        "do_pgo_reset_counters", "hw_spin_should_keep_spinning",
        "hw_lck_ticket_lock", "zone_get_stats",
        "lck_ticket_unlock_nopreempt", "zone_drain",
        "hw_lck_ticket_unlock_nopreempt", "hw_spin_compute_timeout",
        "percpu_slot_lck_mcs", "lck_ticket_lock_nopreempt", "zcache_drain",
        "_zc_mag_size", "hw_lck_ticket_lock_nopreempt", "zfree_id_smr",
        "zfree_smr"},
     constant |-> {"kern_unregister_userspace_coredump",
        "machine_thread_process_signature", "hvg_is_hcall_available",
        "kdebug_startup", "os_log_disabled", "dtrace_init", "helper_init",
        "lockstat_init", "lockprof_init", "sdt_init", "systrace_init",
        "fbt_init", "profile_init", "grab_pgo_data", "zone_enable_smr"}]

(* bsd/fakes/stubs.c, lines 1233 to 1378.                                  *)
BsdStubs9 ==
    [abort |-> {
        "lck_rw_lock_count_dec", "_bcopy", "strnstr", "lck_rw_lock_count_inc",
        "PERemoveNVRAMProperty", "PEWriteNVRAMBooleanProperty",
        "pmap_user_va_bits", "ml_addr_in_non_xnu_stack", "pmap_set_tpro",
        "ml_did_interrupt_userspace", "iokit_kobject_retain",
        "send_vfs_resolve_reparent_with_audit_token",
        "ml_page_protection_type", "iokit_copy_object_for_consumed_kobject",
        "lock_panic_timeout", "xnu_strncmp", "xnu_strncpy", "xnu_strncasecmp",
        "ml_static_unslide", "telemetry_backtrace_add_kexts",
        "ml_fp_save_area_prealloc", "kpc_set_period", "mt_microstackshot_ctr",
        "IOTaskHasStringEntitlement"},
     constant |-> {"crypto_random_kmem_init", "pmap_get_tpro",
        "crypto_random_kmem_ctx_size", "ktriage_register_subsystem_strings"},
     byte |-> {"PEReadNVRAMBooleanProperty"},
     word |-> {"crypto_random_uniform"}]

(* bsd/fakes/stubs.c, lines 1379 to 1429.                                  *)
BsdStubs10 ==
    [abort |-> {"kperf_thread_ast_handler", "kpc_get_actionid",
        "kpc_get_counter_count", "kpc_supported", "mt_microstackshot_period",
        "kpc_set_actionid", "kpc_set_config_kernel", "kpc_get_config_count",
        "kpc_counterbuf_free", "kpc_get_period", "kpc_get_counterbuf_size",
        "image4_dlxk_get", "IOTaskGetEntitlement", "usimple_lock_assert",
        "kpc_counterbuf_alloc", "_memmove"},
     constant |-> {"mt_dev_init"}]

(* scheduler.c, lines 42 to 186.                                           *)
SchedStubs1 ==
    [abort |-> {"timebase_init", "choose_thread", "steal_thread",
        "compute_timeshare_priority", "processor_enqueue",
        "processor_queue_shutdown", "processor_queue_remove",
        "processor_queue_empty", "processor_queue_has_priority",
        "quantum_expire", "processor_runq_count",
        "processor_runq_stats_count_sum", "thread_update_scan",
        "thread_avoid_processor"},
     constant |-> {"init", "steal_thread_enabled", "choose_node",
        "choose_processor_stub", "processor_csw_check",
        "initial_quantum_size", "initial_thread_sched_mode",
        "processor_bound_count"},
     wait |-> {"maintenance_continuation"},
     lock |-> {"processor_balance"}]

(* scheduler.c, lines 188 to 307: with the dispatch table that binds them.   *)
SchedStubs2 ==
    [abort |-> {"rt_queue_shutdown", "rt_runq_scan", "rt_runq_count_sum",
        "rt_steal_thread", "ipi_policy", "pset_made_schedulable",
        "cpu_init_completed", "thread_eligible_for_pset"},
     constant |-> {"rt_runq", "rt_init", "check_spill",
        "thread_should_yield", "run_count_incr", "run_count_decr",
        "update_thread_bucket", "pset_init_stub", "processor_init_stub",
        "qos_max_parallelism_nop"}]

(* osfmk platform_expert.c, lines 38 to 112.                               *)
OsfmkPlatformStubs ==
    [abort |-> {
        "PEGetCoprocessorVersion", "PEHaltRestartInternal", "PEInitiatePanic",
        "PE_get_kc_header", "PE_init_panicheader", "PE_panic_hook",
        "PE_stub_poll_input", "PE_update_panicheader_nestedpanic"},
     constant |-> {
        "PE_boot_args", "PE_display_icon", "PEHaltRestart", "PE_get_default",
        "PE_get_primary_kc_format", "PE_i_can_has_debugger", "PE_init_iokit",
        "PE_lockdown_iokit", "PE_parse_boot_arg_str"}]

(* bsd platform_expert.c, lines 34 to 62.                                  *)
BsdPlatformStubs ==
    [constant |-> {"PEGetModelName", "PEGetMachineName",
        "PEGetPlatformEpoch", "PEGetTargetName", "PEGetProductName"}]

(* timer.c, lines 37 to 70.                                                *)
TimerStubs ==
    [abort |-> {"timer_call_cpu", "timer_queue_cpu",
        "timer_resort_threshold", "ml_timer_forced_evaluation"},
     constant |-> {"cpu_init", "timer_queue_assign", "timer_queue_cancel",
        "timer_call_nosync_cpu", "timer_resync_deadlines",
        "ml_timer_evaluate"}]

(* pmap.c, lines 34 to 167.                                                *)
PmapStubs ==
    [constant |-> {"pmap_remove_options", "pmap_init", "pmap_assert_free",
        "pmap_is_noencrypt", "pmap_verify_free", "pmap_enter_options",
        "pmap_enter_options_addr", "pmap_is_empty", "pmap_reference",
        "mapping_free_prime", "pmap_create_options", "pmap_destroy",
        "pmap_valid_page", "pmap_free_pages", "pmap_zero_page",
        "pmap_zero_part_page", "pmap_pre_expand_large", "mapping_adjust",
        "IOMapperIOVMAlloc", "ml_static_mfree", "pmap_query_pagesize",
        "pmap_protect", "pmap_release_pages_fast", "pmap_clear_noencrypt",
        "pmap_find_phys"},
     page |-> {"pmap_next_page", "pmap_next_page_large", "pmap_next_page_hi",
        "pmap_virtual_space"}]

(* cpu_data.c, lines 51 to 61.                                             *)
CpuStubs ==
    [constant |-> {"current_thread", "current_processor", "cpu_threadtype"}]

(* machine.c, lines 33 to 41.                                              *)
MachineStubs ==
    [constant |-> {"machine_boot_info", "machine_processor_shutdown"}]
-----------------------------------------------------------------------------
StubTables ==
    <<OsfmkStubs1, OsfmkStubs2, OsfmkStubs3, OsfmkStubs4, OsfmkStubs5,
      OsfmkStubs6, OsfmkStubs7, OsfmkStubs8, OsfmkStubs9, OsfmkStubs10,
      BsdStubs1, BsdStubs2, BsdStubs3, BsdStubs4, BsdStubs5, BsdStubs6,
      BsdStubs7, BsdStubs8, BsdStubs9, BsdStubs10, SchedStubs1, SchedStubs2,
      OsfmkPlatformStubs, BsdPlatformStubs, TimerStubs, PmapStubs, CpuStubs,
      MachineStubs>>

(* The stubs of one behaviour in one table, and in all of them.            *)
Listed(table, b) == IF b \in DOMAIN table THEN table[b] ELSE {}

Stubs(b) == UNION {Listed(StubTables[i], b) : i \in DOMAIN StubTables}

(* What a call of some stub can do.                                        *)
StubBehaviours == UNION {DOMAIN StubTables[i] : i \in DOMAIN StubTables}

(* The stub libraries are linked into one program: no function has two     *)
(* definitions.                                                            *)
ASSUME StubsLinkOnce ==
    /\ \A i, j \in DOMAIN StubTables : i # j =>
          \A b \in DOMAIN StubTables[i], c \in DOMAIN StubTables[j] :
             StubTables[i][b] \intersect StubTables[j][c] = {}
    /\ \A b, c \in StubBehaviours : b # c => Stubs(b) \intersect Stubs(c) = {}
=============================================================================
