----------------------------- MODULE MCDevices ------------------------------
EXTENDS Devices

MCPorts == <<"virtio", "nvme", "net">>

Op(kind, sector) == [kind |-> kind, sector |-> sector]

MCBlock == {Op("Read", 0), Op("Write", 0), Op("Flush", 0), Op("Read", 1)}

MCOps == [virtio |-> MCBlock, nvme |-> {Op("Write", 0)}, net |-> {}]
MCDirect == [virtio |-> {Op("Write", 0), Op("Read", 1)}, nvme |-> {Op("Read", 0), Op("Read", 1)}, net |-> {}]

MCRequests == [virtio |-> 2, nvme |-> 3, net |-> 0]

MCFrames == 1..10
MCQueues == {<<2, 1>>, <<1, 4>>, <<0, 1>>, <<1, 3>>}
MCInput == {0..25, 1..4, {0}}
MCDomains == {0..2, {0}}
=============================================================================
