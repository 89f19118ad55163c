---------------------------- MODULE MCBatchStats ----------------------------
(* Traces of up to MaxTrace events, each over the events of a few parsers   *)
(* that share them, with ends of batches and events that disturb.           *)
EXTENDS BatchStats

MCAlphabets ==
    {{"exit_kick", "net_dev_start_xmit", "net_dev_xmit", "net_dev_recv_start", "net_dev_recv_end"},
     {"exit_kick", "local_timer", "net_dev_start_xmit", "net_dev_xmit", "elsewhere"},
     {"exit_hlt", "sys_fdatasync", "switch_to_netserver", "switch_from_netserver", "ioctl_interrupt"},
     {"exit_kick", "host_irq", "sys_read", "sys_read_other", "sys_read_end", "netperf_in"},
     {"exit_kick", "sys_writev", "sys_writev_other", "sys_writev_end", "import_iovec", "import_iovec_end"},
     {"exit_hlt", "exit_kick", "exit_interrupt", "kvm_entry", "net_exit_before", "net_exit_after"},
     {"exit_interrupt", "exit_hlt", "net_dev_recv_start", "napi_receive_start", "napi_receive_end", "net_dev_recv_end"},
     {"exit_kick", "switch", "irq_handler_entry", "irq_handler_exit", "ioctl_other"},
     {"exit_kick", "local_timer", "tcp_ack", "tcp_ack_end"},
     {"exit_hlt", "sys_sendto", "sys_recvfrom", "netperf_in", "netperf_out"}}
=============================================================================
